---------------------------- MODULE Spec2Model ----------------------------
(***************************************************************************)
(* A model of docwatch (jaimade/watch-docs): the reference matcher, the    *)
(* documentation analyzer with its graph and coverage queries, the entity  *)
(* differ, the impact analyzer and the git command layer.                  *)
(*                                                                         *)
(* Text is modelled as sequences of one-character strings, so that         *)
(* substring tests, splitting, stripping, lower-casing and trigram         *)
(* extraction are computed the way the Python code computes them.          *)
(* Confidences are integers in hundredths (1.0 is 100, 0.6 is 60).         *)
(***************************************************************************)
EXTENDS Integers, Sequences, FiniteSets, TLC

(***************************************************************************)
(* Bounds of the model.                                                    *)
(***************************************************************************)
MaxEntitiesPerFile == 2
MaxRefsPerDoc == 2
MaxLine == 2
MaxAnalyses == 2
MaxCommits == 2
MaxStash == 2
MaxTempDirs == 2
MaxItems == 3
MaxBatchSize == 3
MaxAccesses == 3

(***************************************************************************)
(* Text helpers (Python str operations).                                   *)
(***************************************************************************)
None == <<>>

\* str.lower() on the characters the model uses
LowerChar(c) ==
    CASE c = "R" -> "r"
      [] c = "U" -> "u"
      [] c = "N" -> "n"
      [] c = "K" -> "k"
      [] OTHER -> c

ToLower(s) == [i \in 1..Len(s) |-> LowerChar(s[i])]

\* a in b
IsSubstr(a, b) ==
    \E i \in 0..(Len(b) - Len(a)) : SubSeq(b, i + 1, i + Len(a)) = a

Contains(s, c) == \E i \in 1..Len(s) : s[i] = c

\* index of the first occurrence of character c in s, 0 when absent
RECURSIVE FindChar(_, _, _)
FindChar(s, c, i) ==
    IF i > Len(s) THEN 0
    ELSE IF s[i] = c THEN i
    ELSE FindChar(s, c, i + 1)

\* s.split(c)
RECURSIVE Split(_, _)
Split(s, c) ==
    LET i == FindChar(s, c, 1) IN
    IF i = 0 THEN <<s>>
    ELSE <<SubSeq(s, 1, i - 1)>> \o Split(SubSeq(s, i + 1, Len(s)), c)

\* c.join(parts)
RECURSIVE Join(_, _)
Join(parts, c) ==
    IF Len(parts) = 0 THEN <<>>
    ELSE IF Len(parts) = 1 THEN parts[1]
    ELSE parts[1] \o <<c>> \o Join(Tail(parts), c)

\* s.strip(chars)
RECURSIVE LStrip(_, _)
LStrip(s, chars) ==
    IF Len(s) > 0 /\ s[1] \in chars THEN LStrip(Tail(s), chars) ELSE s

RECURSIVE RStrip(_, _)
RStrip(s, chars) ==
    IF Len(s) > 0 /\ s[Len(s)] \in chars
    THEN RStrip(SubSeq(s, 1, Len(s) - 1), chars)
    ELSE s

Strip(s, chars) == RStrip(LStrip(s, chars), chars)

\* the elements of a sequence
Range(seq) == {seq[i] : i \in 1..Len(seq)}

\* the sequences over S of length at most n
SeqsUpTo(S, n) == UNION {[1..k -> S] : k \in 0..n}

\* the concatenation of a sequence of sequences
RECURSIVE Flatten(_)
Flatten(ss) == IF Len(ss) = 0 THEN <<>> ELSE ss[1] \o Flatten(Tail(ss))

(***************************************************************************)
(* The texts of the model.                                                 *)
(***************************************************************************)
str_run == <<"r", "u", "n">>
str_Run == <<"R", "u", "n">>
str_RUN == <<"R", "U", "N">>
str_ru == <<"r", "u">>
str_go == <<"g", "o">>
str_ago == <<"a", "g", "o">>
str_xyz == <<"x", "y", "z">>
str_K == <<"K">>
str_u_run == <<"u", ".", "r", "u", "n">>
str_K_run == <<"K", ".", "r", "u", "n">>
str_quoted_run == <<"[", "r", "u", "n", "]">>
path_src_u_py == <<"s", "r", "c", "/", "u", ".", "p", "y">>
path_K_py == <<"K", ".", "p", "y">>
str_sig0 == <<"(", ")">>
str_sig1 == <<"(", "x", ")">>
str_doc == <<"d">>
path_d_md == <<"d", ".", "m", "d">>

(***************************************************************************)
(* models.py                                                               *)
(***************************************************************************)
SOURCE_DIR_PREFIXES ==
    << <<"s", "r", "c">>, <<"l", "i", "b">>,
       <<"s", "o", "u", "r", "c", "e">>, <<"p", "k", "g">>,
       <<"p", "a", "c", "k", "a", "g", "e", "s">>, <<"a", "p", "p">> >>

\* index of the last occurrence of character c in s, 0 when absent
RECURSIVE RFindChar(_, _, _)
RFindChar(s, c, i) ==
    IF i < 1 THEN 0
    ELSE IF s[i] = c THEN i
    ELSE RFindChar(s, c, i - 1)

\* Path(p).parts of a relative path
PathParts(p) == Split(p, "/")

\* Path(p).stem of the last component: the name without its last suffix
Stem(name) ==
    LET i == RFindChar(name, ".", Len(name)) IN
    IF i <= 1 THEN name ELSE SubSeq(name, 1, i - 1)

\* list(file_path.with_suffix("").parts)
PartsWithoutSuffix(p) ==
    LET parts == PathParts(p) IN
    [i \in 1..Len(parts) |-> IF i = Len(parts) THEN Stem(parts[i]) ELSE parts[i]]

\* parts.index(x): position of the first occurrence, 0 when absent
RECURSIVE IndexOf(_, _, _)
IndexOf(parts, x, i) ==
    IF i > Len(parts) THEN 0
    ELSE IF parts[i] = x THEN i
    ELSE IndexOf(parts, x, i + 1)

\* the loop over SOURCE_DIR_PREFIXES: the first prefix found anywhere in
\* parts cuts parts after its first occurrence
RECURSIVE StripPrefix(_, _)
StripPrefix(parts, k) ==
    IF k > Len(SOURCE_DIR_PREFIXES) THEN parts
    ELSE LET i == IndexOf(parts, SOURCE_DIR_PREFIXES[k], 1) IN
         IF i > 0 THEN SubSeq(parts, i + 1, Len(parts))
         ELSE StripPrefix(parts, k + 1)

file_path_to_module_path(file_path) ==
    LET parts == StripPrefix(PartsWithoutSuffix(file_path), 1) IN
    IF Len(parts) > 0 THEN Join(parts, ".")
    ELSE Stem(PathParts(file_path)[Len(PathParts(file_path))])

ReferenceTypes == {"inline_code", "code_block", "link", "header"}

\* CodeEntity: parent None is the empty text
CodeEntity(name, entity_type, file, line, parent) ==
    [name |-> name, entity_type |-> entity_type,
     location |-> [file |-> file, line_start |-> line, line_end |-> 0],
     parent |-> parent]

module_path(entity) == file_path_to_module_path(entity.location.file)

qualified_name(entity) ==
    IF Len(entity.parent) > 0
    THEN module_path(entity) \o <<".">> \o entity.parent \o <<".">> \o entity.name
    ELSE module_path(entity) \o <<".">> \o entity.name

\* DocReference
DocReference(text, file, line, reference_type) ==
    [text |-> text,
     location |-> [file |-> file, line_start |-> line, line_end |-> 0],
     reference_type |-> reference_type]

\* the backtick character, which no string literal can hold, is written as
\* this one element of a text
chr_backtick == "backtick"

\* a clean_text that strips the surrounding whitespace as well
clean_text_NoWhitespace(ref) ==
    Strip(ref.text, {chr_backtick, "'", "\"", "[", "]", " "})

clean_text(ref) == Strip(ref.text, {chr_backtick, "'", "\"", "[", "]"})

\* digits of a natural number: str(n)
Digits == <<"0", "1", "2", "3", "4", "5", "6", "7", "8", "9">>

RECURSIVE IntToStr(_)
IntToStr(n) ==
    IF n < 10 THEN <<Digits[n + 1]>>
    ELSE IntToStr(n \div 10) \o <<Digits[(n % 10) + 1]>>

IsDigit(c) == \E d \in 1..10 : Digits[d] = c

DigitValue(c) == (CHOOSE d \in 1..10 : Digits[d] = c) - 1

\* whether int(s) succeeds for an unsigned decimal text
IsInt(s) == Len(s) > 0 /\ \A i \in 1..Len(s) : IsDigit(s[i])

RECURSIVE StrToInt(_)
StrToInt(s) ==
    IF Len(s) = 0 THEN 0
    ELSE 10 * StrToInt(SubSeq(s, 1, Len(s) - 1)) + DigitValue(s[Len(s)])

\* Location.__str__
LocationStr(location) ==
    IF location.line_end # 0 /\ location.line_end # location.line_start
    THEN location.file \o <<":">> \o IntToStr(location.line_start)
         \o <<"-">> \o IntToStr(location.line_end)
    ELSE location.file \o <<":">> \o IntToStr(location.line_start)

\* Location.from_str: <<ok, file, line_start, line_end>>
LocationFromStr(location_str) ==
    LET i == RFindChar(location_str, ":", Len(location_str))
        file_path == SubSeq(location_str, 1, i - 1)
        line_part == SubSeq(location_str, i + 1, Len(location_str))
        dash == FindChar(line_part, "-", 1)
        start_str == SubSeq(line_part, 1, dash - 1)
        end_str == SubSeq(line_part, dash + 1, Len(line_part))
    IN  IF i = 0 THEN [ok |-> FALSE, file |-> <<>>, line_start |-> 0, line_end |-> 0]
        ELSE IF dash > 0
        THEN IF IsInt(start_str) /\ IsInt(end_str)
             THEN [ok |-> TRUE, file |-> file_path,
                   line_start |-> StrToInt(start_str), line_end |-> StrToInt(end_str)]
             ELSE [ok |-> FALSE, file |-> <<>>, line_start |-> 0, line_end |-> 0]
        ELSE IF IsInt(line_part)
             THEN [ok |-> TRUE, file |-> file_path,
                   line_start |-> StrToInt(line_part), line_end |-> 0]
             ELSE [ok |-> FALSE, file |-> <<>>, line_start |-> 0, line_end |-> 0]

CodeFile(path, entities) == [path |-> path, entities |-> entities]

DocFile(path, references) == [path |-> path, references |-> references]

CodeDocLink(entity, reference, link_type, confidence) ==
    [entity |-> entity, reference |-> reference,
     link_type |-> link_type, confidence |-> confidence]

(***************************************************************************)
(* constants.py: confidences in hundredths                                 *)
(***************************************************************************)
MIN_IDENTIFIER_LENGTH == 3
CONFIDENCE_EXACT_MATCH == 100
CONFIDENCE_QUALIFIED_MATCH == 90
CONFIDENCE_PARTIAL_QUALIFIED == 70
CONFIDENCE_PARTIAL_MATCH == 50
CONFIDENCE_CODE_BLOCK_PENALTY == 60
CONFIDENCE_BROKEN_REFERENCE == 100
CONFIDENCE_SIGNATURE_CHANGED == 80
CONFIDENCE_DOCSTRING_CHANGED == 60
CONFIDENCE_UNDOCUMENTED == 100

\* the product of two confidences in hundredths
Times(a, b) == (a * b) \div 100

(***************************************************************************)
(* The entity name index: a dict name -> list of entities, kept as the     *)
(* sequence of its items in insertion order.                               *)
(***************************************************************************)
IndexKeys(index) == {index[i].name : i \in 1..Len(index)}

HasKey(index, name) == \E i \in 1..Len(index) : index[i].name = name

IndexGet(index, name) ==
    index[CHOOSE i \in 1..Len(index) : index[i].name = name].entities

\* analyzer.py 98-101: append the entity under its name
IndexAdd(index, entity) ==
    IF HasKey(index, entity.name)
    THEN [i \in 1..Len(index) |->
            IF index[i].name = entity.name
            THEN [index[i] EXCEPT !.entities = Append(@, entity)]
            ELSE index[i]]
    ELSE Append(index, [name |-> entity.name, entities |-> <<entity>>])

RECURSIVE IndexEntities(_, _)
IndexEntities(index, entities) ==
    IF Len(entities) = 0 THEN index
    ELSE IndexEntities(IndexAdd(index, entities[1]), Tail(entities))

\* all entities of a list of code files, in file order
AllEntities(files) == Flatten([i \in 1..Len(files) |-> files[i].entities])

AllReferences(docs) == Flatten([i \in 1..Len(docs) |-> docs[i].references])

(***************************************************************************)
(* Matching steps shared by matcher.py and analyzer.py.  A match is a      *)
(* tuple <<entity, link_type, confidence>>.                                *)
(***************************************************************************)
\* matcher.py 125-129, analyzer.py 140
confidence_multiplier(ref) ==
    IF ref.reference_type = "code_block" THEN CONFIDENCE_CODE_BLOCK_PENALTY ELSE 100

\* the exact step without the code-block penalty
ExactMatches_NoPenalty(index, clean, mult) ==
    LET entities == IndexGet(index, clean) IN
    [i \in 1..Len(entities) |-> <<entities[i], "exact", CONFIDENCE_EXACT_MATCH>>]

\* matcher.py 133-136, analyzer.py 144-147
ExactMatches(index, clean, mult) ==
    LET entities == IndexGet(index, clean) IN
    [i \in 1..Len(entities) |->
        <<entities[i], "exact", Times(CONFIDENCE_EXACT_MATCH, mult)>>]

\* the qualified step without the test on the qualified name
QualifiedTuple_AlwaysQualified(entity, clean, mult) ==
    <<entity, "qualified", Times(CONFIDENCE_QUALIFIED_MATCH, mult)>>

\* matcher.py 144-149, analyzer.py 155-160: one tuple for one entity
QualifiedTuple(entity, clean, mult) ==
    IF IsSubstr(clean, qualified_name(entity))
    THEN <<entity, "qualified", Times(CONFIDENCE_QUALIFIED_MATCH, mult)>>
    ELSE <<entity, "partial", Times(CONFIDENCE_PARTIAL_QUALIFIED, mult)>>

\* matcher.py 139-149, analyzer.py 150-160
QualifiedMatches(index, clean, mult) ==
    LET segments == Split(clean, ".")
        last_part == segments[Len(segments)]
    IN  IF Contains(clean, ".") /\ HasKey(index, last_part)
        THEN LET entities == IndexGet(index, last_part) IN
             [i \in 1..Len(entities) |-> QualifiedTuple(entities[i], clean, mult)]
        ELSE <<>>

\* the tuples emitted for the names of the index that are in hits, in
\* index order
PartialTuples(index, mult, hits) ==
    Flatten([i \in 1..Len(index) |->
        IF index[i].name \in hits
        THEN [j \in 1..Len(index[i].entities) |->
                <<index[i].entities[j], "partial", Times(CONFIDENCE_PARTIAL_MATCH, mult)>>]
        ELSE <<>>])

(***************************************************************************)
(* matcher.py: ReferenceMatcher                                            *)
(***************************************************************************)
_extract_trigrams(text) ==
    IF Len(text) < 3 THEN {}
    ELSE {ToLower(SubSeq(text, i, i + 2)) : i \in 1..(Len(text) - 2)}

\* dict trigram -> set of names
_build_trigram_index(index) ==
    LET keys == UNION {_extract_trigrams(name) : name \in IndexKeys(index)} IN
    [t \in keys |-> {name \in IndexKeys(index) : t \in _extract_trigrams(name)}]

ReferenceMatcher(index) ==
    [entity_index |-> index, trigram_index |-> _build_trigram_index(index)]

_find_partial_candidates(m, text) ==
    LET trigrams == _extract_trigrams(text) IN
    IF trigrams = {} THEN IndexKeys(m.entity_index)
    ELSE UNION {m.trigram_index[t] : t \in trigrams \cap DOMAIN m.trigram_index}

\* matcher.py 152-163; the candidates are visited in index order
MatcherPartialMatches(m, clean, mult) ==
    LET candidates == _find_partial_candidates(m, clean)
        clean_lower == ToLower(clean)
        hits == {name \in candidates :
                    \/ IsSubstr(clean_lower, ToLower(name))
                    \/ IsSubstr(ToLower(name), clean_lower)}
    IN  PartialTuples(m.entity_index, mult, hits)

\* ReferenceMatcher.match
match(m, ref) ==
    LET clean == clean_text(ref)
        mult == confidence_multiplier(ref)
    IN  IF HasKey(m.entity_index, clean)
        THEN ExactMatches(m.entity_index, clean, mult)
        ELSE LET matches == QualifiedMatches(m.entity_index, clean, mult) IN
             IF Len(matches) = 0 /\ Len(clean) >= MIN_IDENTIFIER_LENGTH
             THEN matches \o MatcherPartialMatches(m, clean, mult)
             ELSE matches

(***************************************************************************)
(* analyzer.py: DocumentationAnalyzer._match_reference                     *)
(***************************************************************************)
\* analyzer.py 163-168
AnalyzerPartialMatches(index, clean, mult) ==
    LET hits == {name \in IndexKeys(index) :
                    /\ Len(clean) >= 3
                    /\ (IsSubstr(clean, name) \/ IsSubstr(name, clean))}
    IN  PartialTuples(index, mult, hits)

_match_reference(index, ref) ==
    LET clean == clean_text(ref)
        mult == confidence_multiplier(ref)
    IN  IF HasKey(index, clean)
        THEN ExactMatches(index, clean, mult)
        ELSE LET matches == QualifiedMatches(index, clean, mult) IN
             IF Len(matches) = 0
             THEN matches \o AnalyzerPartialMatches(index, clean, mult)
             ELSE matches

(***************************************************************************)
(* graph.py: DocumentationGraph over a networkx DiGraph.  nodes maps a     *)
(* node id to its attributes, edges maps a pair <<source, target>> to the  *)
(* edge attributes.  Node ids are the texts the f-strings build.           *)
(***************************************************************************)
_ID_DELIM == "|"

_file_node_id(path) == <<"f", "i", "l", "e", _ID_DELIM>> \o path

_entity_node_id(qname) == <<"e", "n", "t", "i", "t", "y", _ID_DELIM>> \o qname

_reference_node_id(file, line, text) ==
    <<"r", "e", "f", _ID_DELIM>> \o file \o <<_ID_DELIM>> \o IntToStr(line)
    \o <<_ID_DELIM>> \o text

EmptyGraph == [nodes |-> <<>>, edges |-> <<>>]

NodeAttrs(kind, label, location) ==
    [kind |-> kind, label |-> label, location |-> location]

\* DiGraph.add_node: a node added again gets the new attributes
add_node(g, id, attrs) == [g EXCEPT !.nodes = (id :> attrs) @@ @]

\* DiGraph.add_edge: the endpoints exist in this model whenever it is called
add_edge(g, u, v, attrs) == [g EXCEPT !.edges = (<<u, v>> :> attrs) @@ @]

HasNode(g, id) == id \in DOMAIN g.nodes

ContainsEdge == [relation |-> "contains", link_type |-> "", confidence |-> 0]

EntityId(entity) == _entity_node_id(qualified_name(entity))

ReferenceId(ref) ==
    _reference_node_id(ref.location.file, ref.location.line_start, clean_text(ref))

add_entity(g, entity) ==
    add_node(g, EntityId(entity),
             NodeAttrs("entity", qualified_name(entity), LocationStr(entity.location)))

add_reference(g, ref) ==
    add_node(g, ReferenceId(ref),
             NodeAttrs("reference", clean_text(ref), LocationStr(ref.location)))

RECURSIVE AddEntities(_, _, _)
AddEntities(g, file_id, entities) ==
    IF Len(entities) = 0 THEN g
    ELSE AddEntities(
            add_edge(add_entity(g, entities[1]), file_id, EntityId(entities[1]),
                     ContainsEdge),
            file_id, Tail(entities))

RECURSIVE AddReferences(_, _, _)
AddReferences(g, file_id, references) ==
    IF Len(references) = 0 THEN g
    ELSE AddReferences(
            add_edge(add_reference(g, references[1]), file_id,
                     ReferenceId(references[1]), ContainsEdge),
            file_id, Tail(references))

add_code_file(g, code_file) ==
    AddEntities(
        add_node(g, _file_node_id(code_file.path),
                 NodeAttrs("code_file", code_file.path, <<>>)),
        _file_node_id(code_file.path), code_file.entities)

add_doc_file(g, doc_file) ==
    AddReferences(
        add_node(g, _file_node_id(doc_file.path),
                 NodeAttrs("doc_file", doc_file.path, <<>>)),
        _file_node_id(doc_file.path), doc_file.references)

add_link(g, link) ==
    IF HasNode(g, EntityId(link.entity)) /\ HasNode(g, ReferenceId(link.reference))
    THEN add_edge(g, EntityId(link.entity), ReferenceId(link.reference),
                  [relation |-> "documents", link_type |-> link.link_type,
                   confidence |-> link.confidence])
    ELSE g

RECURSIVE AddCodeFiles(_, _)
AddCodeFiles(g, files) ==
    IF Len(files) = 0 THEN g
    ELSE AddCodeFiles(add_code_file(g, files[1]), Tail(files))

RECURSIVE AddDocFiles(_, _)
AddDocFiles(g, docs) ==
    IF Len(docs) = 0 THEN g
    ELSE AddDocFiles(add_doc_file(g, docs[1]), Tail(docs))

RECURSIVE AddLinks(_, _)
AddLinks(g, ls) ==
    IF Len(ls) = 0 THEN g ELSE AddLinks(add_link(g, ls[1]), Tail(ls))

find_entity_by_qualified_name(g, qname) ==
    LET entity_id == _entity_node_id(qname) IN
    IF HasNode(g, entity_id) /\ g.nodes[entity_id].kind = "entity"
    THEN entity_id ELSE <<>>

\* the targets of the documents edges leaving entity_id
get_documenting_refs(g, entity_id) ==
    {e[2] : e \in {x \in DOMAIN g.edges :
                      x[1] = entity_id /\ g.edges[x].relation = "documents"}}

(***************************************************************************)
(* analyzer.py: the queries of DocumentationAnalyzer, as functions of its  *)
(* code_files, doc_files and links.                                        *)
(***************************************************************************)
\* _build_links, lines 113-123: the links of one reference
LinksOfReference(index, ref) ==
    LET matches == _match_reference(index, ref) IN
    [i \in 1..Len(matches) |->
        CodeDocLink(matches[i][1], ref, matches[i][2], matches[i][3])]

BuildLinks(index, docs) ==
    LET refs == AllReferences(docs) IN
    Flatten([i \in 1..Len(refs) |-> LinksOfReference(index, refs[i])])

\* the key (str(file), line_start) of a reference
RefKey(ref) == <<ref.location.file, ref.location.line_start>>

DocumentedNames(ls) == {qualified_name(ls[i].entity) : i \in 1..Len(ls)}

LinkedRefKeys(ls) == {RefKey(ls[i].reference) : i \in 1..Len(ls)}

CoverageStats(total_entities, documented_entities, total_references, linked_references) ==
    [total_entities |-> total_entities,
     documented_entities |-> documented_entities,
     total_references |-> total_references,
     linked_references |-> linked_references]

get_coverage_stats(files, docs, ls) ==
    CoverageStats(Len(AllEntities(files)), Cardinality(DocumentedNames(ls)),
                  Len(AllReferences(docs)), Cardinality(LinkedRefKeys(ls)))

\* round(100 * num / den, 2) in hundredths of a percent; no tie between two
\* hundredths arises for den < 32
RoundedPercent(num, den) == (2 * 10000 * num + den) \div (2 * den)

\* coverage_percent with an empty code base counted as fully covered
coverage_percent_EmptyIsFull(stats) ==
    IF stats.total_entities = 0 THEN [num |-> 100, den |-> 1]
    ELSE [num |-> 100 * stats.documented_entities, den |-> stats.total_entities]

\* CoverageStats.coverage_percent as the exact fraction num / den
coverage_percent(stats) ==
    IF stats.total_entities = 0 THEN [num |-> 0, den |-> 1]
    ELSE [num |-> 100 * stats.documented_entities, den |-> stats.total_entities]

get_undocumented_entities(files, ls) ==
    SelectSeq(AllEntities(files),
              LAMBDA e : qualified_name(e) \notin DocumentedNames(ls))

get_broken_references(docs, ls) ==
    SelectSeq(AllReferences(docs), LAMBDA r : RefKey(r) \notin LinkedRefKeys(ls))

DocumentedCount(code_file, ls) ==
    Len(SelectSeq(code_file.entities,
                  LAMBDA e : qualified_name(e) \in DocumentedNames(ls)))

\* analyzer.py 235-258: a dict path -> percentage; a later file with the
\* same path overwrites an earlier one
AnalyzerCoverageOfFile(code_file, ls) ==
    IF Len(code_file.entities) = 0 THEN 10000
    ELSE RoundedPercent(DocumentedCount(code_file, ls), Len(code_file.entities))

RECURSIVE AnalyzerCoverageByFile(_, _, _)
AnalyzerCoverageByFile(coverage, files, ls) ==
    IF Len(files) = 0 THEN coverage
    ELSE AnalyzerCoverageByFile(
            (files[1].path :> AnalyzerCoverageOfFile(files[1], ls)) @@ coverage,
            Tail(files), ls)

(***************************************************************************)
(* coverage.py: CoverageCalculator(code_files, doc_files, links)           *)
(***************************************************************************)
CalculatorGetStats(files, docs, ls) ==
    CoverageStats(Len(AllEntities(files)), Cardinality(DocumentedNames(ls)),
                  Len(AllReferences(docs)), Cardinality(LinkedRefKeys(ls)))

CalculatorGetBrokenReferences(docs, ls) ==
    SelectSeq(AllReferences(docs), LAMBDA r : RefKey(r) \notin LinkedRefKeys(ls))

\* get_coverage_by_file of coverage.py with the zero-entity rule of the analyzer
CalculatorCoverageByFile_NoSkip(coverage, files, ls) ==
    AnalyzerCoverageByFile(coverage, files, ls)

\* coverage.py 112-137: files without entities are skipped
RECURSIVE CalculatorCoverageByFile(_, _, _)
CalculatorCoverageByFile(coverage, files, ls) ==
    IF Len(files) = 0 THEN coverage
    ELSE IF Len(files[1].entities) = 0
    THEN CalculatorCoverageByFile(coverage, Tail(files), ls)
    ELSE CalculatorCoverageByFile(
            (files[1].path :>
                RoundedPercent(DocumentedCount(files[1], ls), Len(files[1].entities)))
            @@ coverage,
            Tail(files), ls)

(***************************************************************************)
(* models.py to_dict / from_dict and analyzer.py save / load.  A dict is a *)
(* record with the keys that are written; created_at, which load never     *)
(* reads, is left out.                                                     *)
(***************************************************************************)
\* str(Path(s)): empty and "." components vanish, the root of an absolute
\* path stays, and the empty path is "."
IsAbsolute(p) == Len(p) > 0 /\ p[1] = "/"

PathStr(s) ==
    LET kept == SelectSeq(PathParts(s), LAMBDA part : part \notin {<<>>, <<".">>})
    IN  IF IsAbsolute(s) THEN <<"/">> \o Join(kept, "/")
        ELSE IF Len(kept) = 0 THEN <<".">>
        ELSE Join(kept, "/")

LocationToDict(location) ==
    [file |-> PathStr(location.file), line_start |-> location.line_start,
     line_end |-> location.line_end]

LocationFromDict(data) ==
    [file |-> PathStr(data.file), line_start |-> data.line_start,
     line_end |-> data.line_end]

CodeEntityToDict(entity) ==
    [name |-> entity.name, type |-> entity.entity_type,
     location |-> LocationToDict(entity.location), parent |-> entity.parent,
     qualified_name |-> qualified_name(entity)]

CodeEntityFromDict(data) ==
    [name |-> data.name, entity_type |-> data.type,
     location |-> LocationFromDict(data.location), parent |-> data.parent]

DocReferenceToDict(ref) ==
    [text |-> ref.text, clean_text |-> clean_text(ref),
     location |-> LocationToDict(ref.location), type |-> ref.reference_type]

DocReferenceFromDict(data) ==
    [text |-> data.text, location |-> LocationFromDict(data.location),
     reference_type |-> data.type]

CodeDocLinkToDict(link) ==
    [entity |-> CodeEntityToDict(link.entity),
     reference |-> DocReferenceToDict(link.reference),
     link_type |-> link.link_type, confidence |-> link.confidence]

CodeDocLinkFromDict(data) ==
    CodeDocLink(CodeEntityFromDict(data.entity), DocReferenceFromDict(data.reference),
                data.link_type, data.confidence)

CodeFileToDict(code_file) ==
    [path |-> PathStr(code_file.path),
     entities |-> [i \in 1..Len(code_file.entities) |->
                      CodeEntityToDict(code_file.entities[i])]]

CodeFileFromDict(data) ==
    CodeFile(PathStr(data.path),
             [i \in 1..Len(data.entities) |-> CodeEntityFromDict(data.entities[i])])

DocFileToDict(doc_file) ==
    [path |-> PathStr(doc_file.path),
     references |-> [i \in 1..Len(doc_file.references) |->
                        DocReferenceToDict(doc_file.references[i])]]

DocFileFromDict(data) ==
    DocFile(PathStr(data.path),
            [i \in 1..Len(data.references) |-> DocReferenceFromDict(data.references[i])])

\* the data DocumentationAnalyzer.save dumps
SaveData(files, docs, ls) ==
    [version |-> "1.0",
     code_files |-> [i \in 1..Len(files) |-> CodeFileToDict(files[i])],
     doc_files |-> [i \in 1..Len(docs) |-> DocFileToDict(docs[i])],
     links |-> [i \in 1..Len(ls) |-> CodeDocLinkToDict(ls[i])]]

(***************************************************************************)
(* serializer.py: path validation.  A resolved path is the list of its     *)
(* components below the root; the file system holds no symbolic links.     *)
(***************************************************************************)
dir_w == <<"/", "w">>
dir_root == <<"/">>
path_up_x_py == <<".", ".", "/", "x", ".", "p", "y">>
path_etc_p == <<"/", "e", "t", "c", "/", "p">>
path_w_K_py == <<"/", "w", "/", "K", ".", "p", "y">>
path_s_up_K_py == <<"s", "/", ".", ".", "/", "K", ".", "p", "y">>

\* Path.resolve() of an absolute path: "." and empty components vanish,
\* ".." drops the component before it and stays at the root
RECURSIVE ResolveParts(_, _)
ResolveParts(parts, stack) ==
    IF Len(parts) = 0 THEN stack
    ELSE IF Head(parts) \in {<<>>, <<".">>} THEN ResolveParts(Tail(parts), stack)
    ELSE IF Head(parts) = <<".", ".">>
    THEN ResolveParts(Tail(parts),
                      IF Len(stack) = 0 THEN stack ELSE SubSeq(stack, 1, Len(stack) - 1))
    ELSE ResolveParts(Tail(parts), Append(stack, Head(parts)))

resolve(p) == ResolveParts(PathParts(p), <<>>)

\* resolved.relative_to(base_resolved) does not raise
relative_to(resolved, base_resolved) ==
    /\ Len(base_resolved) <= Len(resolved)
    /\ SubSeq(resolved, 1, Len(base_resolved)) = base_resolved

\* _validate_path returns (TRUE) or raises PathTraversalError (FALSE)
_validate_path(path_str, base_dir) ==
    LET resolved == IF IsAbsolute(path_str) THEN resolve(path_str)
                    ELSE resolve(base_dir \o <<"/">> \o path_str)
    IN  relative_to(resolved, resolve(base_dir))

\* _validate_paths_in_data returns (TRUE) or raises PathTraversalError (FALSE)
_validate_paths_in_data(data, base_dir) ==
    /\ \A i \in 1..Len(data.code_files) :
          /\ _validate_path(data.code_files[i].path, base_dir)
          /\ \A j \in 1..Len(data.code_files[i].entities) :
                _validate_path(data.code_files[i].entities[j].location.file, base_dir)
    /\ \A i \in 1..Len(data.doc_files) :
          /\ _validate_path(data.doc_files[i].path, base_dir)
          /\ \A j \in 1..Len(data.doc_files[i].references) :
                _validate_path(data.doc_files[i].references[j].location.file, base_dir)
    /\ \A i \in 1..Len(data.links) :
          /\ _validate_path(data.links[i].entity.location.file, base_dir)
          /\ _validate_path(data.links[i].reference.location.file, base_dir)

\* what a load constructs from the data: the model objects, the graph and
\* the entity index
LoadedFiles(data) ==
    [i \in 1..Len(data.code_files) |-> CodeFileFromDict(data.code_files[i])]

LoadedDocs(data) ==
    [i \in 1..Len(data.doc_files) |-> DocFileFromDict(data.doc_files[i])]

\* a load that matches the references again instead of reading the links
LoadedLinks_Rematched(data) ==
    BuildLinks(IndexEntities(<<>>, AllEntities(LoadedFiles(data))), LoadedDocs(data))

LoadedLinks(data) ==
    [i \in 1..Len(data.links) |-> CodeDocLinkFromDict(data.links[i])]

LoadedGraph(data) ==
    AddLinks(AddDocFiles(AddCodeFiles(EmptyGraph, LoadedFiles(data)), LoadedDocs(data)),
             LoadedLinks(data))

\* the number of model objects, graph nodes and index entries constructed
BuiltBy(data) ==
    Len(LoadedFiles(data)) + Len(AllEntities(LoadedFiles(data)))
    + Len(LoadedDocs(data)) + Len(AllReferences(LoadedDocs(data)))
    + Len(LoadedLinks(data)) + Cardinality(DOMAIN LoadedGraph(data).nodes)
    + Len(AllEntities(LoadedFiles(data)))


(***************************************************************************)
(* git/tracker.py: the entity differ.  A file at a commit is what          *)
(* get_file_at_commit and extract_from_source make of it: absent, or the   *)
(* list of its entities in source order.  None is <<>>.                    *)
(***************************************************************************)
ChangeTypes ==
    {"added", "deleted", "signature_changed", "docstring_changed", "body_changed"}

NoFile == [exists |-> FALSE, entities |-> <<>>]

FileWith(entities) == [exists |-> TRUE, entities |-> entities]

SourceEntity(name, parent, entity_type, signature, docstring) ==
    [name |-> name, parent |-> parent, entity_type |-> entity_type,
     signature |-> signature, docstring |-> docstring]

EntitySnapshot(signature, docstring, entity_type) ==
    [signature |-> signature, docstring |-> docstring, entity_type |-> entity_type]

\* tracker.py 410, 420
SnapshotKey(e) == IF e.parent # <<>> THEN e.parent \o <<".">> \o e.name ELSE e.name

\* tracker.py 408-425: a later entity with the same key replaces an earlier one
RECURSIVE Snapshots(_, _)
Snapshots(snapshots, entities) ==
    IF Len(entities) = 0 THEN snapshots
    ELSE Snapshots(
            (SnapshotKey(entities[1]) :>
                EntitySnapshot(entities[1].signature, entities[1].docstring,
                               entities[1].entity_type)) @@ snapshots,
            Tail(entities))

EntityChange(entity_name, entity_type, file_path, change_type, old_signature,
             new_signature, old_docstring, new_docstring) ==
    [entity_name |-> entity_name, entity_type |-> entity_type,
     file_path |-> file_path, change_type |-> change_type,
     old_signature |-> old_signature, new_signature |-> new_signature,
     old_docstring |-> old_docstring, new_docstring |-> new_docstring]

\* tracker.py 461-481 with the docstring test under an elif
ModifiedChanges_Elif(name, old, new, file_path) ==
    IF old.signature # new.signature
    THEN << EntityChange(name, new.entity_type, file_path, "signature_changed",
                         old.signature, new.signature, <<>>, <<>>) >>
    ELSE IF old.docstring # new.docstring
    THEN << EntityChange(name, new.entity_type, file_path, "docstring_changed",
                         <<>>, <<>>, old.docstring, new.docstring) >>
    ELSE <<>>

\* tracker.py 461-481: the changes of one key present in both snapshots
ModifiedChanges(name, old, new, file_path) ==
    (IF old.signature # new.signature
     THEN << EntityChange(name, new.entity_type, file_path, "signature_changed",
                          old.signature, new.signature, <<>>, <<>>) >>
     ELSE <<>>)
    \o
    (IF old.docstring # new.docstring
     THEN << EntityChange(name, new.entity_type, file_path, "docstring_changed",
                          <<>>, <<>>, old.docstring, new.docstring) >>
     ELSE <<>>)

\* tracker.py 427-483; order is the order in which the sets of keys are
\* iterated
CompareSnapshots(old_entities, new_entities, file_path, order) ==
    LET old_names == DOMAIN old_entities
        new_names == DOMAIN new_entities
        added == SelectSeq(order, LAMBDA k : k \in new_names \ old_names)
        deleted == SelectSeq(order, LAMBDA k : k \in old_names \ new_names)
        shared == SelectSeq(order, LAMBDA k : k \in old_names \cap new_names)
    IN  [i \in 1..Len(added) |->
            EntityChange(added[i], new_entities[added[i]].entity_type, file_path,
                         "added", <<>>, new_entities[added[i]].signature,
                         <<>>, new_entities[added[i]].docstring)]
        \o
        [i \in 1..Len(deleted) |->
            EntityChange(deleted[i], old_entities[deleted[i]].entity_type, file_path,
                         "deleted", old_entities[deleted[i]].signature, <<>>,
                         old_entities[deleted[i]].docstring, <<>>)]
        \o
        Flatten([i \in 1..Len(shared) |->
            ModifiedChanges(shared[i], old_entities[shared[i]],
                            new_entities[shared[i]], file_path)])

\* ChangeTracker._compare_python_entities: old_content and new_content are
\* the file at the parent commit and at the commit
_compare_python_entities(old_content, new_content, file_path, order) ==
    CompareSnapshots(
        IF old_content.exists THEN Snapshots(<<>>, old_content.entities) ELSE <<>>,
        IF new_content.exists THEN Snapshots(<<>>, new_content.entities) ELSE <<>>,
        file_path, order)

(***************************************************************************)
(* git/impact.py: ImpactAnalyzer over the graph of an analyzer.            *)
(***************************************************************************)
DocumentationImpact(doc_path, doc_line, referenced_entity, impact_type, confidence,
                    change) ==
    [doc_path |-> doc_path, doc_line |-> doc_line,
     referenced_entity |-> referenced_entity, impact_type |-> impact_type,
     confidence |-> confidence, change |-> change]

\* DocumentationImpact.severity
severity(impact) ==
    CASE impact.impact_type = "broken_reference" -> "high"
      [] impact.impact_type = "possibly_stale" -> "medium"
      [] impact.impact_type = "needs_update" -> "low"
      [] impact.impact_type = "added_undocumented" -> "low"
      [] OTHER -> "low"

_build_qualified_names(change) ==
    << file_path_to_module_path(change.file_path) \o <<".">> \o change.entity_name,
       change.entity_name >>

\* a set listed in some order; the model does not keep the insertion order
\* of the edges of the graph
RECURSIVE SetToSeq(_)
SetToSeq(S) ==
    IF S = {} THEN <<>>
    ELSE LET x == CHOOSE y \in S : TRUE IN <<x>> \o SetToSeq(S \ {x})

\* the ids of the references documenting the entity called qname
DocumentingRefsOf(g, qname) ==
    LET entity_id == find_entity_by_qualified_name(g, qname) IN
    IF entity_id = <<>> THEN <<>> ELSE SetToSeq(get_documenting_refs(g, entity_id))

\* _find_doc_references without refs_by_id: every candidate adds its references
_find_doc_references_NoDedupe(g, change) ==
    Flatten([i \in 1..2 |-> DocumentingRefsOf(g, _build_qualified_names(change)[i])])

\* impact.py 160-185: the reference ids found, each once
_find_doc_references(g, change) ==
    LET qualified_names == _build_qualified_names(change)
        first == DocumentingRefsOf(g, qualified_names[1])
        second == DocumentingRefsOf(g, qualified_names[2])
    IN  first \o SelectSeq(second, LAMBDA ref_id : ref_id \notin Range(first))

\* impact.py 201-258: <<impact>>, or <<>> for None
_assess_impact(change, ref_data) ==
    LET location == LocationFromStr(ref_data.location)
        doc_path == IF location.ok THEN PathStr(location.file) ELSE ref_data.location
        doc_line == IF location.ok THEN location.line_start ELSE 0
    IN  CASE change.change_type = "deleted" ->
                << DocumentationImpact(doc_path, doc_line, change.entity_name,
                        "broken_reference", CONFIDENCE_BROKEN_REFERENCE, change) >>
          [] change.change_type = "signature_changed" ->
                << DocumentationImpact(doc_path, doc_line, change.entity_name,
                        "possibly_stale", CONFIDENCE_SIGNATURE_CHANGED, change) >>
          [] change.change_type = "docstring_changed" ->
                << DocumentationImpact(doc_path, doc_line, change.entity_name,
                        "needs_update", CONFIDENCE_DOCSTRING_CHANGED, change) >>
          [] OTHER -> <<>>

\* impact.py 138-156: the impacts of one change
ImpactsOfChange(g, change) ==
    LET doc_refs == _find_doc_references(g, change) IN
    IF Len(doc_refs) > 0
    THEN Flatten([i \in 1..Len(doc_refs) |-> _assess_impact(change, g.nodes[doc_refs[i]])])
    ELSE IF change.change_type = "added"
    THEN << DocumentationImpact(<<>>, 0, change.entity_name, "added_undocumented",
                                CONFIDENCE_UNDOCUMENTED, change) >>
    ELSE <<>>

\* ImpactAnalyzer.analyze_changes
analyze_changes(g, changes) ==
    Flatten([i \in 1..Len(changes) |-> ImpactsOfChange(g, changes[i])])

(***************************************************************************)
(* git/commands.py and git/context.py: the operations taking a commit      *)
(* reference.  A call leaves in spawned the git subprocesses it ran, each  *)
(* with its arguments and the reference it was given.                      *)
(***************************************************************************)
MAX_REF_LENGTH == 256

AllowedChars ==
    {"a", "b", "c", "d", "e", "f", "g", "h", "i", "j", "k", "l", "m",
     "n", "o", "p", "q", "r", "s", "t", "u", "v", "w", "x", "y", "z",
     "A", "B", "C", "D", "E", "F", "G", "H", "I", "J", "K", "L", "M",
     "N", "O", "P", "Q", "R", "S", "T", "U", "V", "W", "X", "Y", "Z",
     "0", "1", "2", "3", "4", "5", "6", "7", "8", "9",
     "/", "_", "-", ".", "^", "~", "@", "{", "}"}

_is_valid_commit_hash(commit_hash) ==
    /\ Len(commit_hash) # 0
    /\ ~(Len(commit_hash) > MAX_REF_LENGTH)
    /\ \A i \in 1..Len(commit_hash) : commit_hash[i] \in AllowedChars

ref_main == <<"m", "a", "i", "n">>
ref_parent == <<"H", "E", "A", "D", "~", "1">>
ref_marks == <<"v", "1", ".", "0", "/", "_", "-", "^", "~", "@", "{", "}">>
ref_space == <<"a", " ", "b">>
ref_semicolon == <<"a", ";", "b">>
ref_longest == [i \in 1..MAX_REF_LENGTH |-> "a"]
ref_too_long == [i \in 1..(MAX_REF_LENGTH + 1) |-> "a"]

hash_parent == <<"a", "1", "b", "2">>
url_good == <<"u", "r", "l">>
url_gone == <<"g", "o", "n", "e">>
dir_repo == <<"/", "r">>
dir_plain == <<"/", "p">>

\* the references git resolves in the repository
KnownRefs == {ref_main, ref_parent, hash_parent}

\* the directories that are git repositories
Repositories == {dir_repo}

\* the URLs git can clone
CloneableUrls == {url_good}

\* what HEAD is after git checkout ref: the branch, or the commit's hash
\* when the reference is not a branch (detached)
CheckedOut(ref) == IF ref = ref_main THEN ref_main ELSE hash_parent

Branches == {ref_main}

\* run_git_command(args + [ref]): one subprocess
GitCall(args, ref) == [args |-> args, ref |-> ref]

\* get_current_branch / _get_head_ref: the subprocesses that read the head
HeadRefCalls(at) ==
    IF at \in Branches
    THEN << GitCall(<<"branch", "--show-current">>, <<>>) >>
    ELSE << GitCall(<<"branch", "--show-current">>, <<>>),
            GitCall(<<"rev-parse", "HEAD">>, <<>>) >>

\* _has_uncommitted_changes: the subprocess that reads the status
StatusCall == GitCall(<<"status", "--porcelain">>, <<>>)

\* the checkout of checkout_commit (context.py 172-178)
CheckoutCall(commit_ref, discard_uncommitted_changes) ==
    IF discard_uncommitted_changes
    THEN GitCall(<<"checkout", "--force">>, commit_ref)
    ELSE GitCall(<<"checkout">>, commit_ref)

\* a restore that runs the --force checkout whatever the plain one did
RestoreCalls_AlwaysForce(original_ref, plain_ok) ==
    << GitCall(<<"checkout">>, original_ref),
       GitCall(<<"checkout", "--force">>, original_ref) >>

\* the restore of checkout_commit (context.py 185-192): the plain checkout
\* of original_ref, and the one with --force when the plain one failed
RestoreCalls(original_ref, plain_ok) ==
    IF plain_ok
    THEN << GitCall(<<"checkout">>, original_ref) >>
    ELSE << GitCall(<<"checkout">>, original_ref),
            GitCall(<<"checkout", "--force">>, original_ref) >>

\* the stash push of stashed_changes (context.py 228-234)
StashPushCalls(had_changes) ==
    IF had_changes
    THEN << GitCall(<<"stash", "push", "--include-untracked", "-m">>, <<>>) >>
    ELSE <<>>

\* a pop that is attempted whether or not a stash was pushed
StashPopCalls_Always(had_changes) == << GitCall(<<"stash", "pop">>, <<>>) >>

\* the stash pop of stashed_changes (context.py 241-243)
StashPopCalls(had_changes) ==
    IF had_changes THEN << GitCall(<<"stash", "pop">>, <<>>) >> ELSE <<>>

\* a cleanup that leaves the directory behind
Cleanup_Skipped(dirs, temp_parent, removed) == dirs

\* shutil.rmtree(temp_parent, ignore_errors=True) (context.py 126-128): the
\* directories left, whether or not the removal went through
Cleanup(dirs, temp_parent, removed) ==
    IF removed THEN dirs \ {temp_parent} ELSE dirs

\* the clone of cloned_repo (context.py 112-120); depth and branch are
\* given as they are printed, "None" when absent
CloneCall(repo_url, depth, branch) ==
    GitCall(<<"clone">>
            \o (IF depth # "None" THEN <<"--depth", depth>> ELSE <<>>)
            \o (IF branch # "None" THEN <<"--branch", branch>> ELSE <<>>),
            repo_url)

(***************************************************************************)
(* scanner.py: the files of a directory, one by one and in batches.  A     *)
(* directory is what rglob lists under it: items in traversal order, each  *)
(* with the parts of its path and whether it is a file.                    *)
(***************************************************************************)
DEFAULT_IGNORE_DIRS ==
    {<<".", "g", "i", "t">>,
     <<".", "h", "g">>,
     <<".", "s", "v", "n">>,
     <<"n", "o", "d", "e", "_", "m", "o", "d", "u", "l", "e", "s">>,
     <<"v", "e", "n", "d", "o", "r">>,
     <<"_", "_", "p", "y", "c", "a", "c", "h", "e", "_", "_">>,
     <<".", "p", "y", "t", "e", "s", "t", "_", "c", "a", "c", "h", "e">>,
     <<"v", "e", "n", "v">>,
     <<".", "v", "e", "n", "v">>,
     <<"e", "n", "v">>,
     <<".", "e", "n", "v">>,
     <<".", "i", "d", "e", "a">>,
     <<".", "v", "s", "c", "o", "d", "e">>,
     <<"d", "i", "s", "t">>,
     <<"b", "u", "i", "l", "d">>,
     <<"t", "a", "r", "g", "e", "t">>,
     <<".", "t", "o", "x">>,
     <<".", "n", "o", "x">>,
     <<"e", "g", "g", "-", "i", "n", "f", "o">>,
     <<".", "e", "g", "g", "s">>}

str_egg_info == <<".", "e", "g", "g", "-", "i", "n", "f", "o">>

EndsWith(s, suffix) ==
    Len(suffix) <= Len(s) /\ SubSeq(s, Len(s) - Len(suffix) + 1, Len(s)) = suffix

should_ignore(parts, ignore_dirs) ==
    \E i \in 1..Len(parts) :
        parts[i] \in ignore_dirs \/ EndsWith(parts[i], str_egg_info)

Item(parts, is_file) == [parts |-> parts, is_file |-> is_file]

\* the loop body of get_all_files: whether the item is yielded
Yielded(item, ignore_dirs) ==
    ~should_ignore(item.parts, ignore_dirs) /\ item.is_file

\* get_all_files(directory, ignore_dirs): the paths it yields, in order;
\* ignore_dirs is None or <<the set given>>
get_all_files(directory, ignore_dirs) ==
    LET kept == SelectSeq(directory,
                          LAMBDA item : Yielded(item,
                                                IF ignore_dirs = None
                                                THEN DEFAULT_IGNORE_DIRS
                                                ELSE ignore_dirs[1]))
    IN  [i \in 1..Len(kept) |-> kept[i].parts]

\* a batch that is handed out one file late
BatchFull_Late(batch, batch_size) == Len(batch) > batch_size

\* scanner.py 137: the batch is handed out
BatchFull(batch, batch_size) == Len(batch) >= batch_size

\* the loop of get_all_files_batched from one yield to the next: files are
\* appended to batch until it is full or none is left
RECURSIVE FillBatch(_, _, _)
FillBatch(files, batch, batch_size) ==
    IF Len(files) = 0 THEN [batch |-> batch, files |-> files, full |-> FALSE]
    ELSE LET longer == Append(batch, Head(files)) IN
         IF BatchFull(longer, batch_size)
         THEN [batch |-> longer, files |-> Tail(files), full |-> TRUE]
         ELSE FillBatch(Tail(files), longer, batch_size)

\* the generator object: nothing has run yet
Generator(directory, batch_size, ignore_dirs, on_batch) ==
    [directory |-> directory, batch_size |-> batch_size, ignore_dirs |-> ignore_dirs,
     on_batch |-> on_batch, files |-> get_all_files(directory, ignore_dirs),
     total_count |-> 0, done |-> FALSE]

(***************************************************************************)
(* git/tracker.py: AnalyzedChange and its lazily loaded diff.  cache is    *)
(* the entry cached_property keeps in the instance: <<>> while absent.     *)
(***************************************************************************)
AnalyzedChange(has_loader) == [_diff_loader |-> has_loader, cache |-> <<>>]

\* an access that caches nothing
Memoize_Nothing(c, value) == c

\* cached_property stores the value the getter returned
Memoize(c, value) == [c EXCEPT !.cache = <<value>>]

\* one access to AnalyzedChange.diff, where the loader returns the diff when
\* loader_ok and raises otherwise: the object afterwards, what the access
\* returns or raises, and whether the loader was invoked
diff(c, loader_ok) ==
    IF c.cache # <<>>
    THEN [change |-> c, value |-> c.cache[1], invoked |-> FALSE]
    ELSE IF ~c._diff_loader
    THEN [change |-> Memoize(c, "None"), value |-> "None", invoked |-> FALSE]
    ELSE IF loader_ok
    THEN [change |-> Memoize(c, "diff content"), value |-> "diff content",
          invoked |-> TRUE]
    ELSE [change |-> c, value |-> "GitCommandError", invoked |-> TRUE]

(***************************************************************************)
(* The directories analysed: what process_directory returns for them.      *)
(* A Python file yields its definitions in source order, definition i at   *)
(* line i.  A Markdown file yields references with pairwise distinct       *)
(* texts, the inline ones before the code-block ones (extractor.py         *)
(* 149-169).                                                               *)
(***************************************************************************)
Def(name, entity_type, parent) ==
    [name |-> name, entity_type |-> entity_type, parent |-> parent]

DefRun == Def(str_run, "function", <<>>)
DefGo == Def(str_go, "function", <<>>)
DefClassRun == Def(str_Run, "class", <<>>)
DefMethodRun == Def(str_run, "method", str_K)

EntitiesOf(path, defs) ==
    [i \in 1..Len(defs) |->
        CodeEntity(defs[i].name, defs[i].entity_type, path, i, defs[i].parent)]

Directory(defs1, defs2, docs) ==
    [code_files |-> << CodeFile(path_src_u_py, EntitiesOf(path_src_u_py, defs1)),
                       CodeFile(path_K_py, EntitiesOf(path_K_py, defs2)) >>,
     doc_files |-> docs]

KindRank(k) == IF k = "inline_code" THEN 1 ELSE 2

\* the reference lists extract_doc_file can build over the given texts
RefLists(texts) ==
    LET pool == {DocReference(t, path_d_md, l, k) :
                    t \in texts, l \in 1..MaxLine, k \in {"inline_code", "code_block"}}
    IN  {refs \in SeqsUpTo(pool, MaxRefsPerDoc) :
            \A i, j \in 1..Len(refs) :
                i < j => /\ refs[i].text # refs[j].text
                         /\ KindRank(refs[i].reference_type)
                              <= KindRank(refs[j].reference_type)}

Dirs ==
    {Directory(d1, d2, << DocFile(path_d_md, refs) >>) :
        d1 \in SeqsUpTo({DefRun, DefGo}, MaxEntitiesPerFile),
        d2 \in SeqsUpTo({DefRun}, MaxEntitiesPerFile),
        refs \in RefLists({str_run, str_xyz})}

\* code only: the indexes the matchers are tried on
MatcherDirs ==
    {Directory(d1, d2, <<>>) :
        d1 \in SeqsUpTo({DefRun, DefGo, DefClassRun, DefMethodRun}, MaxEntitiesPerFile),
        d2 \in SeqsUpTo({DefRun}, MaxEntitiesPerFile)}

MatcherRefs ==
    {DocReference(t, path_d_md, 1, k) :
        t \in {str_run, str_RUN, str_ru, str_ago, str_xyz, str_u_run, str_K_run,
               str_quoted_run},
        k \in ReferenceTypes}

\* small directories, analysed one after the other by one analyzer
PersistDirs ==
    {Directory(d1, d2, << DocFile(path_d_md, refs) >>) :
        d1 \in {<<>>, <<DefRun>>},
        d2 \in {<<>>, <<DefRun>>},
        refs \in {<<>>, << DocReference(str_run, path_d_md, 1, "inline_code") >>,
                  << DocReference(str_u_run, path_d_md, 1, "code_block") >>}}

\* the entities of the versions of src/u.py that are committed
SnapshotPool ==
    {SourceEntity(str_run, <<>>, "function", str_sig0, <<>>),
     SourceEntity(str_run, <<>>, "function", str_sig0, str_doc),
     SourceEntity(str_run, <<>>, "function", str_sig1, str_doc),
     SourceEntity(str_run, str_K, "method", str_sig0, <<>>)}

FileContents ==
    {NoFile} \cup {FileWith(entities) : entities \in SeqsUpTo(SnapshotPool, MaxEntitiesPerFile)}

\* the orders in which a set of keys can be iterated
KeyOrders ==
    {order \in SeqsUpTo({str_run, str_K_run}, 2) :
        Len(order) = 2 /\ order[1] # order[2]}

\* the directories whose graph the impact analyzer is given
ImpactDirs ==
    {Directory(d1, d2, << DocFile(path_d_md, refs) >>) :
        d1 \in SeqsUpTo({DefRun, DefMethodRun}, MaxEntitiesPerFile),
        d2 \in {<<>>, <<DefRun>>},
        refs \in {<<>>,
                  << DocReference(str_xyz, path_d_md, 1, "inline_code") >>,
                  << DocReference(str_run, path_d_md, 1, "inline_code") >>,
                  << DocReference(str_quoted_run, path_d_md, 2, "code_block") >>,
                  << DocReference(str_run, path_d_md, 1, "inline_code"),
                     DocReference(str_quoted_run, path_d_md, 1, "inline_code") >>,
                  << DocReference(str_run, path_d_md, 1, "inline_code"),
                     DocReference(str_quoted_run, path_d_md, 2, "inline_code") >>}}

\* the changes handed to the impact analyzer
Change(entity_name, file_path, change_type) ==
    EntityChange(entity_name, "function", file_path, change_type, <<>>, <<>>, <<>>, <<>>)

ImpactChanges ==
    {Change(entity_name, file_path, change_type) :
        entity_name \in {str_run, str_K_run},
        file_path \in {path_src_u_py, path_K_py},
        change_type \in ChangeTypes}

ChangeLists ==
    {<<change>> : change \in ImpactChanges}
    \cup {<<change, Change(str_run, path_K_py, "deleted")>> : change \in ImpactChanges}

\* the commit references the operations are called with
CommitRefs ==
    {<<>>, ref_main, ref_parent, ref_marks, ref_space, ref_semicolon, ref_longest,
     ref_too_long}

\* the analysis files found at filepath: one code file with one entity, one
\* doc file with one reference and one link, where the paths of the slots
\* in bad_slots are bad_path
StoredFile(bad_path, bad_slots) ==
    LET at(slot, good) == IF slot \in bad_slots THEN bad_path ELSE good
    IN  SaveData(
            << CodeFile(at(1, path_K_py),
                        << CodeEntity(str_run, "function", at(2, path_K_py), 1, <<>>) >>) >>,
            << DocFile(at(3, path_d_md),
                       << DocReference(str_run, at(4, path_d_md), 1, "inline_code") >>) >>,
            << CodeDocLink(CodeEntity(str_run, "function", at(5, path_K_py), 1, <<>>),
                           DocReference(str_run, at(6, path_d_md), 1, "inline_code"),
                           "exact", CONFIDENCE_EXACT_MATCH) >>)

StoredFiles ==
    {StoredFile(bad_path, bad_slots) :
        bad_path \in {path_up_x_py, path_etc_p, path_w_K_py, path_s_up_K_py},
        bad_slots \in SUBSET (1..6)}

BaseDirs == {None, dir_w, dir_root}

\* the items rglob can list
item_a_py == Item(<< <<"a", ".", "p", "y">> >>, TRUE)
item_s == Item(<< <<"s">> >>, FALSE)
item_s_b_md == Item(<< <<"s">>, <<"b", ".", "m", "d">> >>, TRUE)
item_nm_x_js ==
    Item(<< <<"n", "o", "d", "e", "_", "m", "o", "d", "u", "l", "e", "s">>,
            <<"x", ".", "j", "s">> >>, TRUE)
item_egg_t == Item(<< <<"p", ".", "e", "g", "g", "-", "i", "n", "f", "o">>, <<"t">> >>, TRUE)

\* the directories scanned: at most MaxItems different items in some order
ScannedDirs ==
    {directory \in SeqsUpTo({item_a_py, item_s, item_s_b_md, item_nm_x_js, item_egg_t},
                            MaxItems) :
        \A i, j \in 1..Len(directory) : i < j => directory[i] # directory[j]}

IgnoreDirs == {None, << {} >>}

(***************************************************************************)
(* State.                                                                  *)
(***************************************************************************)
VARIABLES
    code_files,     \* DocumentationAnalyzer.code_files
    doc_files,      \* DocumentationAnalyzer.doc_files
    links,          \* DocumentationAnalyzer.links
    entity_index,   \* DocumentationAnalyzer._entity_index
    graph,          \* DocumentationAnalyzer.graph
    analyses,       \* number of analyze_directory calls made on the analyzer
    matcher,        \* a ReferenceMatcher, <<>> before it is constructed
    disk,           \* the JSON file written by save, <<>> before it exists
    calculator,     \* a CoverageCalculator, <<>> before it is constructed
    built,          \* number of objects the last load call constructed
    tree,           \* the Python file at the last commit of the repository
    parent_tree,    \* the same file at the parent of the last commit
    commits,        \* number of commits in the repository
    head,           \* what the work tree has checked out: a branch or a commit
    dirty,          \* whether the work tree has uncommitted changes
    stash,          \* number of entries of the repository's stash
    temp_dirs,      \* the temporary directories that exist
    scope,          \* original_ref inside a checkout_commit scope, else <<>>
    stash_scope,    \* had_changes inside a stashed_changes scope, else <<>>
    clone_scope,    \* temp_parent inside a cloned_repo scope, else <<>>
    spawned,        \* the git subprocesses spawned by the last call
    results,        \* whether each of them succeeded
    warnings,       \* the warnings issued by the last call
    rmtree,         \* the outcome of each rmtree(temp_parent) of the last call
    gen,            \* the get_all_files_batched generator, <<>> before it is made
    events,         \* its callback invocations and yields, in order
    analyzed_change,  \* an AnalyzedChange, <<>> before it is constructed
    loads,          \* number of invocations of its diff loader
    accesses,       \* number of accesses to its diff
    ret             \* the last call: its operation, argument and return value

analyzerVars == <<code_files, doc_files, links, entity_index, graph, analyses>>

repoVars == <<tree, parent_tree, commits>>

workVars == <<head, dirty, stash, temp_dirs>>

scopeVars == <<scope, stash_scope, clone_scope>>

logVars == <<spawned, results, warnings, rmtree>>

vcsVars == <<workVars, scopeVars, logVars>>

loadVars == <<built>>

scanVars == <<gen, events>>

changeVars == <<analyzed_change, loads, accesses>>

vars == <<code_files, doc_files, links, entity_index, graph, analyses, matcher, disk,
          calculator, built,
          tree, parent_tree, commits, head, dirty, stash, temp_dirs, scope, stash_scope,
          clone_scope, spawned, results, warnings, rmtree, gen, events,
          analyzed_change, loads, accesses, ret>>

Return(op, arg, value) == [op |-> op, arg |-> arg, value |-> value]

\* DocumentationAnalyzer.__init__
Init ==
    /\ code_files = <<>>
    /\ doc_files = <<>>
    /\ links = <<>>
    /\ entity_index = <<>>
    /\ graph = EmptyGraph
    /\ analyses = 0
    /\ matcher = <<>>
    /\ disk = <<>>
    /\ calculator = <<>>
    /\ built = 0
    /\ tree = NoFile
    /\ parent_tree = NoFile
    /\ commits = 0
    /\ head = ref_main
    /\ dirty = FALSE
    /\ stash = 0
    /\ temp_dirs = {}
    /\ scope = <<>>
    /\ stash_scope = <<>>
    /\ clone_scope = <<>>
    /\ spawned = <<>>
    /\ results = <<>>
    /\ warnings = <<>>
    /\ rmtree = <<>>
    /\ gen = <<>>
    /\ events = <<>>
    /\ analyzed_change = <<>>
    /\ loads = 0
    /\ accesses = 0
    /\ ret = Return("__init__", <<>>, <<>>)

\* DocumentationAnalyzer.analyze_directory
AnalyzeDirectory(dir) ==
    LET index == IndexEntities(entity_index, AllEntities(dir.code_files))
        g == AddDocFiles(AddCodeFiles(graph, dir.code_files), dir.doc_files)
        ls == BuildLinks(index, dir.doc_files)
    IN  /\ code_files' = dir.code_files
        /\ doc_files' = dir.doc_files
        /\ entity_index' = index
        /\ links' = ls
        /\ graph' = AddLinks(g, ls)
        /\ analyses' = analyses + 1
        /\ ret' = Return("analyze_directory", <<>>, <<>>)
        /\ UNCHANGED <<scanVars, changeVars, matcher, disk, calculator, repoVars, loadVars,
                       vcsVars>>

\* a query of the analyzer: nothing changes but the value returned
Query(op, value) ==
    /\ ret' = Return(op, <<>>, value)
    /\ UNCHANGED <<scanVars, changeVars, analyzerVars, matcher, disk, calculator, repoVars,
                   loadVars, vcsVars>>

GetCoverageStats ==
    Query("get_coverage_stats", get_coverage_stats(code_files, doc_files, links))

GetBrokenReferences ==
    Query("get_broken_references", get_broken_references(doc_files, links))

GetCoverageByFile ==
    Query("get_coverage_by_file", AnalyzerCoverageByFile(<<>>, code_files, links))

\* analyzer.get_coverage_stats().coverage_percent
CoveragePercent ==
    LET stats == get_coverage_stats(code_files, doc_files, links) IN
    /\ ret' = Return("coverage_percent", stats, coverage_percent(stats))
    /\ UNCHANGED <<scanVars, changeVars, analyzerVars, matcher, disk, calculator, repoVars,
                   loadVars, vcsVars>>

\* CoverageCalculator(code_files, doc_files, links).get_stats()
CalcGetStats ==
    Query("CoverageCalculator.get_stats",
          CalculatorGetStats(code_files, doc_files, links))

CalcGetBrokenReferences ==
    Query("CoverageCalculator.get_broken_references",
          CalculatorGetBrokenReferences(doc_files, links))

CalcGetCoverageByFile ==
    Query("CoverageCalculator.get_coverage_by_file",
          CalculatorCoverageByFile(<<>>, code_files, links))

\* ReferenceMatcher(analyzer._entity_index)
ConstructMatcher ==
    /\ matcher = <<>>
    /\ matcher' = ReferenceMatcher(entity_index)
    /\ ret' = Return("ReferenceMatcher", <<>>, <<>>)
    /\ UNCHANGED <<scanVars, changeVars, analyzerVars, disk, calculator, repoVars, loadVars,
                   vcsVars>>

\* ReferenceMatcher.match(ref)
MatcherMatch(ref) ==
    /\ matcher # <<>>
    /\ ret' = Return("match", ref, match(matcher, ref))
    /\ UNCHANGED <<scanVars, changeVars, analyzerVars, matcher, disk, calculator, repoVars,
                   loadVars, vcsVars>>

\* DocumentationAnalyzer._match_reference(ref)
AnalyzerMatchReference(ref) ==
    /\ ret' = Return("_match_reference", ref, _match_reference(entity_index, ref))
    /\ UNCHANGED <<scanVars, changeVars, analyzerVars, matcher, disk, calculator, repoVars,
                   loadVars, vcsVars>>

\* DocumentationAnalyzer.save
Save ==
    /\ disk' = SaveData(code_files, doc_files, links)
    /\ ret' = Return("save", <<>>, <<>>)
    /\ UNCHANGED <<scanVars, changeVars, analyzerVars, matcher, calculator, repoVars,
                   loadVars, vcsVars>>

\* DocumentationAnalyzer.load of the file at filepath; the analyzer it
\* returns takes the place of the one under observation
Load ==
    /\ disk # <<>>
    /\ code_files' = LoadedFiles(disk)
    /\ doc_files' = LoadedDocs(disk)
    /\ links' = LoadedLinks(disk)
    /\ entity_index' = IndexEntities(<<>>, AllEntities(LoadedFiles(disk)))
    /\ graph' = LoadedGraph(disk)
    /\ built' = BuiltBy(disk)
    /\ ret' = Return("load", <<>>, <<>>)
    /\ UNCHANGED <<scanVars, changeVars, analyses, matcher, disk, calculator,
                   repoVars, vcsVars>>

\* AnalysisSerializer.load of the file at filepath, whose parent is /w.
\* With valid paths it constructs the analyzer and then calls
\* analyzer._init_components(), which DocumentationAnalyzer does not
\* define: the call ends in AttributeError and no analyzer is returned.
SerializerLoad(base_dir, validate_paths) ==
    /\ disk # <<>>
    /\ LET effective_base == IF base_dir # None THEN base_dir ELSE dir_w
       IN  IF validate_paths /\ ~_validate_paths_in_data(disk, effective_base)
           THEN /\ built' = 0
                /\ ret' = Return("AnalysisSerializer.load",
                                 <<base_dir, validate_paths>>, "PathTraversalError")
           ELSE /\ built' = BuiltBy(disk)
                /\ ret' = Return("AnalysisSerializer.load",
                                 <<base_dir, validate_paths>>, "AttributeError")
    /\ UNCHANGED <<scanVars, changeVars, analyzerVars, matcher, disk, calculator, repoVars,
                   vcsVars>>

\* an analysis file from elsewhere is put at filepath
StoreFile(data) ==
    /\ disk' = data
    /\ ret' = Return("store", <<>>, <<>>)
    /\ UNCHANGED <<scanVars, changeVars, analyzerVars, matcher, calculator, repoVars,
                   loadVars, vcsVars>>

\* a commit that adds, modifies or deletes src/u.py
Commit(content) ==
    /\ commits < MaxCommits
    /\ content.exists \/ tree.exists
    /\ parent_tree' = tree
    /\ tree' = content
    /\ commits' = commits + 1
    /\ ret' = Return("commit", <<>>, <<>>)
    /\ UNCHANGED <<scanVars, changeVars, analyzerVars, matcher, disk, calculator, vcsVars,
                   loadVars>>

\* ChangeTracker._compare_python_entities for the last commit and src/u.py;
\* the first commit has no parent: get_file_at_commit raises GitCommandError
\* and old_content is None
ComparePythonEntities(order) ==
    /\ commits >= 1
    /\ LET old_content == IF commits = 1 THEN NoFile ELSE parent_tree IN
       ret' = Return("_compare_python_entities",
                     [old |-> old_content, new |-> tree],
                     _compare_python_entities(old_content, tree, path_src_u_py, order))
    /\ UNCHANGED <<scanVars, changeVars, analyzerVars, matcher, disk, calculator, repoVars,
                   loadVars, vcsVars>>

\* ImpactAnalyzer(analyzer.graph).analyze_changes(changes)
AnalyzeChanges(changes) ==
    /\ ret' = Return("analyze_changes", changes, analyze_changes(graph, changes))
    /\ UNCHANGED <<scanVars, changeVars, analyzerVars, matcher, disk, calculator, repoVars,
                   loadVars, vcsVars>>

\* what a call leaves in the logs
Log(calls, oks, warns, removals) ==
    /\ spawned' = calls
    /\ results' = oks
    /\ warnings' = warns
    /\ rmtree' = removals

AllOk(calls) == [i \in 1..Len(calls) |-> TRUE]

LastFailed(calls) == [i \in 1..Len(calls) |-> i < Len(calls)]

\* a call of commands.py that validates refs and then runs the git
\* subprocesses calls; git fails on the first reference it cannot resolve
ValidatedCall(op, refs, calls, result) ==
    /\ IF \E i \in 1..Len(refs) : ~_is_valid_commit_hash(refs[i])
       THEN /\ Log(<<>>, <<>>, <<>>, <<>>)
            /\ ret' = Return(op, refs, "ValueError")
       ELSE IF \A i \in 1..Len(refs) : refs[i] \in KnownRefs
       THEN /\ Log(calls, AllOk(calls), <<>>, <<>>)
            /\ ret' = Return(op, refs, result)
       ELSE /\ Log(<< calls[1] >>, <<FALSE>>, <<>>, <<>>)
            /\ ret' = Return(op, refs, "GitCommandError")
    /\ UNCHANGED <<scanVars, changeVars, analyzerVars, matcher, disk, calculator, repoVars,
                   loadVars, workVars, scopeVars>>

GetCommit(commit_hash) ==
    ValidatedCall("get_commit", <<commit_hash>>,
                  << GitCall(<<"show", "-s", "--format">>, commit_hash) >>, "Commit")

GetChangedFiles(commit_hash) ==
    ValidatedCall("get_changed_files", <<commit_hash>>,
                  << GitCall(<<"show", "--numstat", "--format=">>, commit_hash),
                     GitCall(<<"show", "--name-status", "--format=">>, commit_hash) >>,
                  "list[ChangedFile]")

GetFileDiff(commit_hash) ==
    ValidatedCall("get_file_diff", <<commit_hash>>,
                  << GitCall(<<"show", "--format=", "--">>, commit_hash) >>, "str")

\* the file may be missing at the commit: None
GetFileAtCommit(commit_hash) ==
    \E result \in {"str", "None"} :
        ValidatedCall("get_file_at_commit", <<commit_hash>>,
                      << GitCall(<<"show">>, commit_hash) >>, result)

GetCommitsBetween(old_ref, new_ref) ==
    ValidatedCall("get_commits_between", <<old_ref, new_ref>>,
                  << GitCall(<<"log", "--format">>, old_ref \o <<".", ".">> \o new_ref) >>,
                  "list[Commit]")

\* entering the checkout_commit scope (context.py 160-182, and 184-199
\* when the checkout fails)
CheckoutCommitEnter(repo_path, commit_ref, discard_uncommitted_changes) ==
    LET status == IF discard_uncommitted_changes THEN <<>> ELSE << StatusCall >>
        checkout == CheckoutCall(commit_ref, discard_uncommitted_changes)
    IN  /\ scope = <<>>
        /\ IF repo_path \notin Repositories
           THEN \* the first git subprocess fails: GitCommandError leaves the call
                /\ Log(IF discard_uncommitted_changes
                       THEN << HeadRefCalls(head)[1] >> ELSE status,
                       <<FALSE>>, <<>>, <<>>)
                /\ ret' = Return("checkout_commit", <<commit_ref>>, "GitCommandError")
                /\ UNCHANGED <<workVars, scopeVars>>
           ELSE IF ~discard_uncommitted_changes /\ dirty
           THEN /\ Log(status, <<TRUE>>, <<>>, <<>>)
                /\ ret' = Return("checkout_commit", <<commit_ref>>, "GitContextError")
                /\ UNCHANGED <<workVars, scopeVars>>
           ELSE IF commit_ref \in KnownRefs
           THEN /\ Log(status \o HeadRefCalls(head) \o <<checkout>>,
                       AllOk(status \o HeadRefCalls(head) \o <<checkout>>), <<>>, <<>>)
                /\ head' = CheckedOut(commit_ref)
                /\ dirty' = FALSE
                /\ scope' = <<head>>
                /\ ret' = Return("checkout_commit", <<commit_ref>>, "entered")
                /\ UNCHANGED <<stash, temp_dirs, stash_scope, clone_scope>>
           ELSE /\ Log(status \o HeadRefCalls(head) \o <<checkout>>
                         \o RestoreCalls(head, TRUE),
                       LastFailed(status \o HeadRefCalls(head) \o <<checkout>>)
                         \o <<TRUE>>, <<>>, <<>>)
                /\ ret' = Return("checkout_commit", <<commit_ref>>, "GitContextError")
                /\ UNCHANGED <<workVars, scopeVars>>
        /\ UNCHANGED <<scanVars, changeVars, analyzerVars, matcher, disk, calculator, repoVars,
                       loadVars>>

\* leaving the scope (context.py 184-199), normally or with the exception
\* the body raised: checkout of original_ref, a second attempt with --force
\* when modified files make the first fail, and a warning when that fails
\* too
CheckoutCommitExit(body_raises) ==
    /\ scope # <<>>
    /\ \E plain_ok \in (IF dirty /\ head # scope[1] THEN BOOLEAN ELSE {TRUE}),
          force_ok \in BOOLEAN :
        /\ plain_ok => force_ok
        /\ Log(RestoreCalls(scope[1], plain_ok),
               IF plain_ok THEN <<TRUE>> ELSE <<FALSE, force_ok>>,
               IF force_ok THEN <<>> ELSE <<"RuntimeWarning">>, <<>>)
        /\ head' = IF force_ok THEN scope[1] ELSE head
        /\ dirty' = IF plain_ok THEN dirty ELSE ~force_ok
    /\ scope' = <<>>
    /\ ret' = Return("checkout_commit.exit", <<>>,
                     IF body_raises THEN "BodyError" ELSE "None")
    /\ UNCHANGED <<scanVars, changeVars, analyzerVars, matcher, disk, calculator, repoVars,
                   loadVars, stash, temp_dirs,
                   stash_scope, clone_scope>>

\* entering the stashed_changes scope (context.py 226-239)
StashedChangesEnter(repo_path) ==
    /\ stash_scope = <<>>
    /\ IF repo_path \notin Repositories
       THEN /\ Log(<< StatusCall >>, <<FALSE>>, <<>>, <<>>)
            /\ ret' = Return("stashed_changes", <<>>, "GitCommandError")
            /\ UNCHANGED <<workVars, scopeVars>>
       ELSE \E push_ok \in (IF dirty THEN BOOLEAN ELSE {TRUE}) :
            /\ Log(<< StatusCall >> \o StashPushCalls(dirty),
                   IF dirty THEN <<TRUE, push_ok>> ELSE <<TRUE>>, <<>>, <<>>)
            /\ IF push_ok
               THEN /\ stash' = IF dirty THEN stash + 1 ELSE stash
                    /\ dirty' = FALSE
                    /\ stash_scope' = <<dirty>>
                    /\ ret' = Return("stashed_changes", <<>>,
                                     IF dirty THEN "True" ELSE "False")
                    /\ UNCHANGED <<head, temp_dirs, scope, clone_scope>>
               ELSE /\ ret' = Return("stashed_changes", <<>>, "GitContextError")
                    /\ UNCHANGED <<workVars, scopeVars>>
    /\ UNCHANGED <<scanVars, changeVars, analyzerVars, matcher, disk, calculator, repoVars,
                   loadVars>>

\* leaving the stashed_changes scope (context.py 240-249); a pop that
\* fails leaves the stash as it is
StashedChangesExit(body_raises) ==
    /\ stash_scope # <<>>
    /\ \E pop_ok \in (IF stash_scope[1] THEN BOOLEAN ELSE {TRUE}) :
        /\ Log(StashPopCalls(stash_scope[1]),
               IF stash_scope[1] THEN <<pop_ok>> ELSE <<>>,
               IF pop_ok THEN <<>> ELSE <<"RuntimeWarning">>, <<>>)
        /\ stash' = IF stash_scope[1] /\ pop_ok THEN stash - 1 ELSE stash
        /\ dirty' = IF stash_scope[1] /\ pop_ok THEN TRUE ELSE dirty
    /\ stash_scope' = <<>>
    /\ ret' = Return("stashed_changes.exit", <<>>,
                     IF body_raises THEN "BodyError" ELSE "None")
    /\ UNCHANGED <<scanVars, changeVars, analyzerVars, matcher, disk, calculator, repoVars,
                   loadVars, head, temp_dirs,
                   scope, clone_scope>>

\* entering the cloned_repo scope (context.py 107-124, and 126-128 when
\* the clone fails); rmtree ignores its errors, so a removal that fails
\* leaves the directory
ClonedRepoEnter(repo_url, depth, branch) ==
    /\ clone_scope = <<>>
    /\ \E temp_parent \in (1..MaxTempDirs) \ temp_dirs :
        IF repo_url \in CloneableUrls
        THEN /\ Log(<< CloneCall(repo_url, depth, branch) >>, <<TRUE>>, <<>>, <<>>)
             /\ temp_dirs' = temp_dirs \cup {temp_parent}
             /\ clone_scope' = <<temp_parent>>
             /\ ret' = Return("cloned_repo", <<repo_url>>, "repo_path")
        ELSE \E removed \in BOOLEAN :
             /\ Log(<< CloneCall(repo_url, depth, branch) >>, <<FALSE>>, <<>>, <<removed>>)
             /\ temp_dirs' = Cleanup(temp_dirs \cup {temp_parent}, temp_parent, removed)
             /\ clone_scope' = <<>>
             /\ ret' = Return("cloned_repo", <<repo_url>>, "GitContextError")
    /\ UNCHANGED <<scanVars, changeVars, analyzerVars, matcher, disk, calculator, repoVars,
                   loadVars, head, dirty, stash,
                   scope, stash_scope>>

\* leaving the cloned_repo scope (context.py 126-128)
ClonedRepoExit(body_raises) ==
    /\ clone_scope # <<>>
    /\ \E removed \in BOOLEAN :
        /\ Log(<<>>, <<>>, <<>>, <<removed>>)
        /\ temp_dirs' = Cleanup(temp_dirs, clone_scope[1], removed)
    /\ clone_scope' = <<>>
    /\ ret' = Return("cloned_repo.exit", <<>>,
                     IF body_raises THEN "BodyError" ELSE "None")
    /\ UNCHANGED <<scanVars, changeVars, analyzerVars, matcher, disk, calculator, repoVars,
                   loadVars, head, dirty, stash,
                   scope, stash_scope>>

\* a file of the work tree is edited
ModifyFile ==
    /\ ~dirty
    /\ dirty' = TRUE
    /\ Log(<<>>, <<>>, <<>>, <<>>)
    /\ ret' = Return("modify", <<>>, <<>>)
    /\ UNCHANGED <<scanVars, changeVars, analyzerVars, matcher, disk, calculator, repoVars,
                   loadVars, head, stash, temp_dirs,
                   scopeVars>>

\* get_all_files_batched(directory, batch_size, ignore_dirs, on_batch):
\* the call makes the generator and runs none of its code
GetAllFilesBatched(directory, batch_size, ignore_dirs, on_batch) ==
    /\ gen' = Generator(directory, batch_size, ignore_dirs, on_batch)
    /\ events' = <<>>
    /\ ret' = Return("get_all_files_batched", <<>>, "generator")
    /\ UNCHANGED <<analyzerVars, matcher, disk, calculator,
                   repoVars, loadVars, vcsVars, changeVars>>

\* next(generator): the generator runs to its next yield, invoking the
\* callback on the way, or to its end
GeneratorNext ==
    /\ gen # <<>>
    /\ ~gen.done
    /\ LET filled == FillBatch(gen.files, <<>>, gen.batch_size)
           total_count == gen.total_count + Len(gen.files) - Len(filled.files)
       IN  IF filled.full \/ Len(filled.batch) > 0
           THEN /\ gen' = [gen EXCEPT !.files = filled.files,
                                      !.total_count = total_count]
                /\ events' = events
                     \o (IF gen.on_batch
                         THEN << [kind |-> "on_batch", batch |-> filled.batch,
                                  total |-> total_count] >>
                         ELSE <<>>)
                     \o << [kind |-> "yield", batch |-> filled.batch,
                             total |-> total_count] >>
                /\ ret' = Return("next", <<>>, filled.batch)
           ELSE /\ gen' = [gen EXCEPT !.files = <<>>, !.done = TRUE]
                /\ events' = events
                /\ ret' = Return("next", <<>>, <<"StopIteration">>)
    /\ UNCHANGED <<analyzerVars, matcher, disk, calculator,
                   repoVars, loadVars, vcsVars, changeVars>>

\* ChangeTracker._analyze_commit for a commit that changed one file: the
\* AnalyzedChange it builds
AnalyzeCommit(include_diffs) ==
    /\ analyzed_change' = AnalyzedChange(include_diffs)
    /\ loads' = 0
    /\ accesses' = 0
    /\ ret' = Return("_analyze_commit", <<include_diffs>>, "AnalyzedCommit")
    /\ UNCHANGED <<analyzerVars, matcher, disk, calculator,
                   repoVars, loadVars, vcsVars, scanVars>>

\* change.diff is read; git may fail under the loader
AccessDiff(loader_ok) ==
    /\ analyzed_change # <<>>
    /\ LET access == diff(analyzed_change, loader_ok)
       IN  /\ analyzed_change' = access.change
           /\ loads' = IF access.invoked THEN loads + 1 ELSE loads
           /\ ret' = Return("diff", <<>>, access.value)
    /\ accesses' = accesses + 1
    /\ UNCHANGED <<analyzerVars, matcher, disk, calculator,
                   repoVars, loadVars, vcsVars, scanVars>>

\* change.path, change.status or a field of the change is read
AccessOther(accessor) ==
    /\ analyzed_change # <<>>
    /\ ret' = Return(accessor, <<>>, accessor)
    /\ UNCHANGED <<analyzerVars, matcher, disk, calculator,
                   repoVars, loadVars, vcsVars, scanVars,
                   changeVars>>

(***************************************************************************)
(* Spec: one analysis of a directory followed by the coverage queries.     *)
(***************************************************************************)
Next ==
    \/ \E dir \in Dirs : analyses = 0 /\ AnalyzeDirectory(dir)
    \/ GetCoverageStats
    \/ GetBrokenReferences
    \/ GetCoverageByFile
    \/ CoveragePercent
    \/ CalcGetStats
    \/ CalcGetBrokenReferences
    \/ CalcGetCoverageByFile

Spec == Init /\ [][Next]_vars

(***************************************************************************)
(* SpecMatcher: the two matchers on the index of an analysed directory.    *)
(***************************************************************************)
NextMatcher ==
    \/ \E dir \in MatcherDirs : analyses = 0 /\ AnalyzeDirectory(dir)
    \/ analyses > 0 /\ ConstructMatcher
    \/ \E ref \in MatcherRefs : MatcherMatch(ref)
    \/ \E ref \in MatcherRefs : analyses > 0 /\ AnalyzerMatchReference(ref)

SpecMatcher == Init /\ [][NextMatcher]_vars

(***************************************************************************)
(* Properties of the matchers (SpecMatcher).                               *)
(***************************************************************************)
\* the index the last matching call looked names up in
IndexUsed == IF ret.op = "match" THEN matcher.entity_index ELSE entity_index

\* the entities of the index named name, in index order
EntitiesNamed(index, name) ==
    Flatten([i \in 1..Len(index) |->
        IF index[i].name = name THEN index[i].entities ELSE <<>>])

Multiplier(ref) == IF ref.reference_type = "code_block" THEN 60 ELSE 100

Kinds(matches) == {matches[i][2] : i \in 1..Len(matches)}

\* C1: ReferenceMatcher.match returns an EXACT link iff ref.clean_text is,
\* verbatim and case-sensitively, a key of the entity name index; when it
\* is, the result is exactly one (entity, EXACT, 1.0 x multiplier) tuple per
\* entity stored under that key, multiplier 0.6 for a code_block reference
\* and 1.0 otherwise, and no QUALIFIED or PARTIAL tuple.
C1_ExactMatch ==
    ret.op = "match" =>
        LET clean == clean_text(ret.arg)
            stored == EntitiesNamed(matcher.entity_index, clean)
        IN  /\ ("exact" \in Kinds(ret.value)) <=> (Len(stored) > 0)
            /\ Len(stored) > 0 =>
                ret.value = [i \in 1..Len(stored) |->
                                <<stored[i], "exact", Multiplier(ret.arg)>>]

\* a code_block reference [run] whose clean text names two entities
C1_Witness ==
    /\ ret.op = "match"
    /\ ret.arg.text = str_quoted_run
    /\ ret.arg.reference_type = "code_block"
    /\ Len(ret.value) = 2
    /\ \A i \in 1..2 : ret.value[i][2] = "exact" /\ ret.value[i][3] = 60

\* C2: for a reference whose clean_text is not a key of the name index and
\* contains '.', the matcher emits one tuple for every entity whose name is
\* the last dot-separated segment of clean_text: QUALIFIED at 0.9 x
\* multiplier when entity.qualified_name contains clean_text, otherwise
\* PARTIAL at 0.7 x multiplier.
C2_QualifiedMatch ==
    ret.op \in {"match", "_match_reference"} =>
        LET clean == clean_text(ret.arg)
            parts == Split(clean, ".")
            named == EntitiesNamed(IndexUsed, parts[Len(parts)])
            mult == Multiplier(ret.arg)
        IN  (Contains(clean, ".") /\ ~HasKey(IndexUsed, clean)) =>
                IF Len(named) > 0
                THEN ret.value = [i \in 1..Len(named) |->
                        IF IsSubstr(clean, qualified_name(named[i]))
                        THEN <<named[i], "qualified", (90 * mult) \div 100>>
                        ELSE <<named[i], "partial", (70 * mult) \div 100>>]
                ELSE "qualified" \notin Kinds(ret.value)

\* u.run against run of src/u.py (QUALIFIED) and run of K.py (PARTIAL)
C2_Witness ==
    /\ ret.op = "match"
    /\ ret.arg.text = str_u_run
    /\ ret.arg.reference_type = "code_block"
    /\ \E i, j \in 1..Len(ret.value) :
        /\ ret.value[i][2] = "qualified" /\ ret.value[i][3] = 54
        /\ ret.value[j][2] = "partial" /\ ret.value[j][3] = 42

\* the names of the index in the case-insensitive substring relation with clean
PartialNames(index, clean) ==
    {name \in IndexKeys(index) :
        \/ IsSubstr(ToLower(clean), ToLower(name))
        \/ IsSubstr(ToLower(name), ToLower(clean))}

\* C3: in both ReferenceMatcher.match and
\* DocumentationAnalyzer._match_reference the partial step runs only when
\* the exact and qualified steps produced no match and len(clean_text) >= 3,
\* and then emits (entity, PARTIAL, 0.5 x multiplier) for an entity iff
\* lower(clean_text) is a substring of lower(entity.name) or the other way
\* round; the trigram pre-filter loses none of these matches and a reference
\* shorter than 3 characters gets no such link.
C3_PartialMatch ==
    ret.op \in {"match", "_match_reference"} =>
        LET clean == clean_text(ret.arg)
            parts == Split(clean, ".")
            nothing_matched ==
                /\ ~HasKey(IndexUsed, clean)
                /\ ~(Contains(clean, ".") /\ HasKey(IndexUsed, parts[Len(parts)]))
            half == (50 * Multiplier(ret.arg)) \div 100
            expected ==
                IF nothing_matched /\ Len(clean) >= 3
                THEN {<<entity, "partial", half>> :
                        entity \in UNION {Range(IndexGet(IndexUsed, name)) :
                                            name \in PartialNames(IndexUsed, clean)}}
                ELSE {}
        IN  IF nothing_matched
            THEN /\ Range(ret.value) = expected
                 /\ Len(ret.value) = Cardinality(expected)
            ELSE \A i \in 1..Len(ret.value) : ret.value[i][3] # half

(***************************************************************************)
(* Properties of the coverage queries (Spec).                              *)
(***************************************************************************)
HasLink(ref) == \E i \in 1..Len(links) : links[i].reference = ref

\* C4: get_broken_references returns exactly the references for which no
\* link was produced, in doc-file order, and linked_references counts the
\* references that have at least one link.
C4_BrokenReferences ==
    LET refs == AllReferences(doc_files) IN
    /\ ret.op \in {"get_broken_references", "CoverageCalculator.get_broken_references"} =>
            ret.value = SelectSeq(refs, LAMBDA r : ~HasLink(r))
    /\ ret.op \in {"get_coverage_stats", "CoverageCalculator.get_stats"} =>
            ret.value.linked_references =
                Cardinality({i \in 1..Len(refs) : HasLink(refs[i])})

IsDocumented(entity) ==
    \E i \in 1..Len(links) : qualified_name(links[i].entity) = qualified_name(entity)

\* v is 100 * documented / total rounded to 2 decimals, in hundredths
IsRounded(v, documented, total) ==
    /\ 2 * (v * total - 10000 * documented) <= total
    /\ 2 * (10000 * documented - v * total) <= total

CoverageOfEveryFileWithEntities ==
    \A i \in 1..Len(code_files) :
        Len(code_files[i].entities) > 0 =>
            /\ code_files[i].path \in DOMAIN ret.value
            /\ IsRounded(ret.value[code_files[i].path],
                    Cardinality({j \in 1..Len(code_files[i].entities) :
                                    IsDocumented(code_files[i].entities[j])}),
                    Len(code_files[i].entities))

\* C5 as stated: both get_coverage_by_file implementations contain no key
\* for a code file with zero entities, and map every file with at least one
\* entity to 100 x documented / entities of that file rounded to 2 decimals.
C5_Original ==
    ret.op \in {"get_coverage_by_file", "CoverageCalculator.get_coverage_by_file"} =>
        /\ \A i \in 1..Len(code_files) :
              Len(code_files[i].entities) = 0 =>
                  code_files[i].path \notin DOMAIN ret.value
        /\ CoverageOfEveryFileWithEntities

\* C5 amended: CoverageCalculator.get_coverage_by_file contains no key for a
\* code file with zero entities, DocumentationAnalyzer.get_coverage_by_file
\* maps such a file to 100.0, and both map every file with at least one
\* entity to 100 x documented / entities of that file rounded to 2 decimals.
C5_CoverageByFile ==
    /\ ret.op = "CoverageCalculator.get_coverage_by_file" =>
        /\ \A i \in 1..Len(code_files) :
              Len(code_files[i].entities) = 0 =>
                  code_files[i].path \notin DOMAIN ret.value
        /\ CoverageOfEveryFileWithEntities
    /\ ret.op = "get_coverage_by_file" =>
        /\ \A i \in 1..Len(code_files) :
              Len(code_files[i].entities) = 0 =>
                  /\ code_files[i].path \in DOMAIN ret.value
                  /\ ret.value[code_files[i].path] = 10000
        /\ CoverageOfEveryFileWithEntities

\* K.py without entities has no key, src/u.py is half documented
C5_Witness ==
    /\ ret.op = "CoverageCalculator.get_coverage_by_file"
    /\ Len(code_files) = 2
    /\ Len(code_files[2].entities) = 0
    /\ DOMAIN ret.value = {path_src_u_py}
    /\ ret.value[path_src_u_py] = 5000

\* C6 as stated: coverage_percent = 0.0 iff total_entities = 0.
C6_Original ==
    ret.op = "coverage_percent" =>
        (ret.value.num = 0 <=> ret.arg.total_entities = 0)

\* C6 amended: coverage_percent = 0.0 iff total_entities = 0 or
\* documented_entities = 0.
C6_CoveragePercent ==
    ret.op = "coverage_percent" =>
        (ret.value.num = 0 <=>
            (ret.arg.total_entities = 0 \/ ret.arg.documented_entities = 0))

\* entities, none of them documented
C6_Witness ==
    /\ ret.op = "coverage_percent"
    /\ ret.arg.total_entities > 0
    /\ ret.arg.documented_entities = 0
    /\ ret.value.num = 0

(***************************************************************************)
(* SpecPersist: repeated analyses by one analyzer, save and load.          *)
(***************************************************************************)
NextPersist ==
    \/ \E dir \in PersistDirs : analyses < MaxAnalyses /\ AnalyzeDirectory(dir)
    \/ Save
    \/ Load

SpecPersist == Init /\ [][NextPersist]_vars

\* C7: for every CodeDocLink in the analyzer's links list, whether the
\* analyzer was populated by analyze_directory or by load, the link's entity
\* node and reference node both exist in the graph, joined by a documents
\* edge, and 0 <= confidence <= 1.
C7_LinksInGraph ==
    \A i \in 1..Len(links) :
        LET entity_id == EntityId(links[i].entity)
            ref_id == ReferenceId(links[i].reference)
        IN  /\ entity_id \in DOMAIN graph.nodes
            /\ ref_id \in DOMAIN graph.nodes
            /\ <<entity_id, ref_id>> \in DOMAIN graph.edges
            /\ graph.edges[<<entity_id, ref_id>>].relation = "documents"
            /\ 0 <= links[i].confidence
            /\ links[i].confidence <= 100

(***************************************************************************)
(* SpecDiffer: commits to src/u.py and the entity differ on the last one.  *)
(***************************************************************************)
NextDiffer ==
    \/ \E content \in FileContents : Commit(content)
    \/ \E order \in KeyOrders : ComparePythonEntities(order)

SpecDiffer == Init /\ [][NextDiffer]_vars

KeysOf(content) ==
    IF content.exists
    THEN {SnapshotKey(content.entities[i]) : i \in 1..Len(content.entities)}
    ELSE {}

\* the entity that a snapshot keeps under key: the last one in source order
Kept(content, key) ==
    content.entities[CHOOSE i \in 1..Len(content.entities) :
        /\ SnapshotKey(content.entities[i]) = key
        /\ \A j \in (i + 1)..Len(content.entities) :
              SnapshotKey(content.entities[j]) # key]

\* the number of changes of one type emitted for one key
Emitted(key, change_type) ==
    Cardinality({i \in 1..Len(ret.value) :
        ret.value[i].entity_name = key /\ ret.value[i].change_type = change_type})

Once(condition) == IF condition THEN 1 ELSE 0

\* C8: the entity differ compares the old and new snapshots by key
\* (Parent.name, or name without parent) and emits exactly one ADDED per key
\* only in the new snapshot, one DELETED per key only in the old snapshot,
\* and for each key in both one SIGNATURE_CHANGED iff the signatures differ
\* and, independently, one DOCSTRING_CHANGED iff the docstrings differ; a
\* shared key with both unchanged emits nothing.
C8_EntityDiffer ==
    ret.op = "_compare_python_entities" =>
        LET old == ret.arg.old
            new == ret.arg.new
            both == KeysOf(old) \cap KeysOf(new)
        IN  /\ \A i \in 1..Len(ret.value) :
                  ret.value[i].entity_name \in KeysOf(old) \cup KeysOf(new)
            /\ \A key \in KeysOf(old) \cup KeysOf(new) :
                /\ Emitted(key, "added") = Once(key \in KeysOf(new) \ KeysOf(old))
                /\ Emitted(key, "deleted") = Once(key \in KeysOf(old) \ KeysOf(new))
                /\ Emitted(key, "signature_changed") =
                      Once(key \in both /\
                           Kept(old, key).signature # Kept(new, key).signature)
                /\ Emitted(key, "docstring_changed") =
                      Once(key \in both /\
                           Kept(old, key).docstring # Kept(new, key).docstring)
                /\ Emitted(key, "body_changed") = 0

\* run changes both its signature and its docstring while K.run is added
C8_Witness ==
    /\ ret.op = "_compare_python_entities"
    /\ Emitted(str_run, "signature_changed") = 1
    /\ Emitted(str_run, "docstring_changed") = 1
    /\ Emitted(str_K_run, "added") = 1
    /\ Len(ret.value) = 3

(***************************************************************************)
(* SpecImpact: the impact analyzer on the graph of an analysed directory.  *)
(***************************************************************************)
NextImpact ==
    \/ \E dir \in ImpactDirs : analyses = 0 /\ AnalyzeDirectory(dir)
    \/ \E changes \in ChangeLists : AnalyzeChanges(changes)

SpecImpact == Init /\ [][NextImpact]_vars

\* the names under which the changed entity is looked up
Candidates(change) ==
    {file_path_to_module_path(change.file_path) \o <<".">> \o change.entity_name,
     change.entity_name}

\* the documenting references of the changed entity: the references linked
\* to an entity with one of the candidate names
DocumentingReferences(change) ==
    {links[i].reference : i \in {j \in 1..Len(links) :
        qualified_name(links[j].entity) \in Candidates(change)}}

\* the impacts emitted for a change
ImpactsFor(change) == {i \in 1..Len(ret.value) : ret.value[i].change = change}

Occurrences(changes, change) ==
    Cardinality({i \in 1..Len(changes) : changes[i] = change})

ExpectedImpact(change_type) ==
    CASE change_type = "deleted" -> <<"broken_reference", 100, "high">>
      [] change_type = "signature_changed" -> <<"possibly_stale", 80, "medium">>
      [] change_type = "docstring_changed" -> <<"needs_update", 60, "low">>

\* C9: for each EntityChange analyze_changes emits exactly one impact per
\* distinct documenting reference of the changed entity (deduplicated by
\* reference id across the qualified-name candidates), carrying the
\* reference's file and line, with (BROKEN_REFERENCE, 1.0, high) for
\* DELETED, (POSSIBLY_STALE, 0.8, medium) for SIGNATURE_CHANGED and
\* (NEEDS_UPDATE, 0.6, low) for DOCSTRING_CHANGED; an ADDED entity with
\* documenting references and any BODY_CHANGED change emit nothing; an ADDED
\* entity without documenting reference emits one ADDED_UNDOCUMENTED impact
\* with empty doc_path, doc_line 0, confidence 1.0 and severity low.
C9_Impacts ==
    ret.op = "analyze_changes" =>
        \A change \in Range(ret.arg) :
            LET refs == DocumentingReferences(change)
                ref_ids == {ReferenceId(ref) : ref \in refs}
                times == Occurrences(ret.arg, change)
                mine == ImpactsFor(change)
            IN  CASE change.change_type \in {"deleted", "signature_changed",
                                             "docstring_changed"} ->
                        /\ Cardinality(mine) = times * Cardinality(ref_ids)
                        /\ \A ref \in refs :
                            Cardinality({i \in mine :
                                /\ ret.value[i].doc_path = ref.location.file
                                /\ ret.value[i].doc_line = ref.location.line_start}) =
                            times * Cardinality({ReferenceId(other) : other \in
                                {r \in refs : r.location = ref.location}})
                        /\ \A i \in mine :
                            <<ret.value[i].impact_type, ret.value[i].confidence,
                              severity(ret.value[i])>> = ExpectedImpact(change.change_type)
                  [] change.change_type = "added" /\ refs = {} ->
                        /\ Cardinality(mine) = times
                        /\ \A i \in mine :
                            /\ ret.value[i].impact_type = "added_undocumented"
                            /\ ret.value[i].doc_path = <<>>
                            /\ ret.value[i].doc_line = 0
                            /\ ret.value[i].confidence = 100
                            /\ severity(ret.value[i]) = "low"
                  [] OTHER -> mine = {}

\* K.run of src/u.py is deleted; its candidates u.K.run and K.run name two
\* entities documented by the same reference d.md:1
C9_Witness ==
    /\ ret.op = "analyze_changes"
    /\ ret.arg = << Change(str_K_run, path_src_u_py, "deleted") >>
    /\ \A name \in Candidates(ret.arg[1]) :
          \E i \in 1..Len(links) : qualified_name(links[i].entity) = name
    /\ Len(ret.value) = 1
    /\ ret.value[1].impact_type = "broken_reference"
    /\ ret.value[1].doc_path = path_d_md
    /\ ret.value[1].doc_line = 1

(***************************************************************************)
(* SpecVcs: the operations on a repository that take a commit reference.   *)
(***************************************************************************)
NextVcs ==
    \/ \E commit_hash \in CommitRefs : GetCommit(commit_hash)
    \/ \E commit_hash \in CommitRefs : GetChangedFiles(commit_hash)
    \/ \E commit_hash \in CommitRefs : GetFileDiff(commit_hash)
    \/ \E commit_hash \in CommitRefs : GetFileAtCommit(commit_hash)
    \/ \E old_ref, new_ref \in CommitRefs : GetCommitsBetween(old_ref, new_ref)
    \/ \E repo_path \in {dir_repo, dir_plain}, commit_ref \in CommitRefs,
          discard \in BOOLEAN :
            CheckoutCommitEnter(repo_path, commit_ref, discard)
    \/ \E body_raises \in BOOLEAN : CheckoutCommitExit(body_raises)
    \/ ModifyFile

SpecVcs == Init /\ [][NextVcs]_vars

\* a reference the operations have to reject
Rejected(ref) ==
    \/ Len(ref) = 0
    \/ Len(ref) > 256
    \/ \E i \in 1..Len(ref) : ref[i] \notin AllowedChars

\* C10: every operation that accepts a commit reference (get_commit,
\* get_changed_files, get_file_diff, get_file_at_commit, get_commits_between
\* and the checkout_commit scope) rejects a reference that is empty, longer
\* than 256 characters or contains a character outside letters, digits and
\* /_-.^~@{} before any git subprocess is spawned.
C10_RefsValidated ==
    (/\ ret.op \in {"get_commit", "get_changed_files", "get_file_diff",
                    "get_file_at_commit", "get_commits_between", "checkout_commit"}
     /\ \E i \in 1..Len(ret.arg) : Rejected(ret.arg[i]))
    => (ret.value \in {"ValueError", "GitContextError"} /\ spawned = <<>>)

(***************************************************************************)
(* SpecLoad: an analysis file is put at /w/analysis.json and loaded        *)
(* through both entry points.                                              *)
(***************************************************************************)
NextLoad ==
    \/ \E data \in StoredFiles : disk = <<>> /\ StoreFile(data)
    \/ Load
    \/ \E base_dir \in BaseDirs, validate_paths \in BOOLEAN :
            SerializerLoad(base_dir, validate_paths)

SpecLoad == Init /\ [][NextLoad]_vars

\* the file paths embedded in the data of an analysis file
EmbeddedPaths(data) ==
    {data.code_files[i].path : i \in 1..Len(data.code_files)}
    \cup {data.doc_files[i].path : i \in 1..Len(data.doc_files)}
    \cup UNION {{data.code_files[i].entities[j].location.file :
                    j \in 1..Len(data.code_files[i].entities)} :
                i \in 1..Len(data.code_files)}
    \cup UNION {{data.doc_files[i].references[j].location.file :
                    j \in 1..Len(data.doc_files[i].references)} :
                i \in 1..Len(data.doc_files)}
    \cup {data.links[i].entity.location.file : i \in 1..Len(data.links)}
    \cup {data.links[i].reference.location.file : i \in 1..Len(data.links)}

\* the path, taken relative to base unless absolute, lies outside base
Outside(path, base) ==
    LET full == IF path[1] = "/" THEN path ELSE base \o <<"/">> \o path
    IN  ~relative_to(resolve(full), resolve(base))

\* the base directory of the last load call: the one given, else /w
BaseOfCall ==
    IF ret.op = "AnalysisSerializer.load" /\ ret.arg[1] # None THEN ret.arg[1] ELSE dir_w

\* C11: loading a persisted analysis through any load entry point
\* (AnalysisSerializer.load with path validation on, DocumentationAnalyzer.load)
\* raises PathTraversalError whenever an embedded path resolves outside the
\* base directory, before any model object, graph node or index entry is
\* built from the data.
C11_PathsValidated ==
    (/\ ret.op \in {"load", "AnalysisSerializer.load"}
     /\ ret.op = "AnalysisSerializer.load" => ret.arg[2]
     /\ \E path \in EmbeddedPaths(disk) : Outside(path, BaseOfCall))
    => (ret.value = "PathTraversalError" /\ built = 0)

(***************************************************************************)
(* SpecScopes: the scoped resources of git/context.py on one repository,   *)
(* with edits of the work tree in between.                                 *)
(***************************************************************************)
NextScopes ==
    \/ \E repo_path \in {dir_repo, dir_plain},
          commit_ref \in {ref_main, ref_parent, ref_semicolon}, discard \in BOOLEAN :
            CheckoutCommitEnter(repo_path, commit_ref, discard)
    \/ \E body_raises \in BOOLEAN : CheckoutCommitExit(body_raises)
    \/ \E repo_path \in {dir_repo, dir_plain} :
            stash < MaxStash /\ StashedChangesEnter(repo_path)
    \/ \E body_raises \in BOOLEAN : StashedChangesExit(body_raises)
    \/ \E repo_url \in {url_good, url_gone}, depth \in {"None", "1"},
          branch \in {"None", "main"} :
            ClonedRepoEnter(repo_url, depth, branch)
    \/ \E body_raises \in BOOLEAN : ClonedRepoExit(body_raises)
    \/ ModifyFile

SpecScopes == Init /\ [][NextScopes]_vars

\* the calls among spawned whose arguments are args
CallsOf(calls, args) == {i \in 1..Len(calls) : calls[i].args = args}

C13_NoForceRestore ==
    [][(ret'.op = "checkout_commit.exit" /\ ~results'[1])
        => /\ \A i \in 1..Len(spawned') : "--force" \notin Range(spawned'[i].args)
           /\ warnings' = <<"RuntimeWarning">>
           /\ head' = head
           /\ dirty' = dirty]_vars

\* C14: stashed_changes pushes a stash (including untracked files) iff the
\* working tree is dirty at entry and yields that boolean; on every exit it
\* attempts exactly one stash pop iff a stash was pushed; a failing pop
\* produces a RuntimeWarning, raises nothing and leaves the stash in place;
\* with a clean tree neither a push nor a pop is ever issued.
C14_StashScope ==
    [][/\ (ret'.op = "stashed_changes" /\ results'[1])
          => LET pushes == {i \in 1..Len(spawned') :
                               /\ SubSeq(spawned'[i].args, 1, 2) = <<"stash", "push">>
                               /\ "--include-untracked" \in Range(spawned'[i].args)}
                 stashes == {i \in 1..Len(spawned') : spawned'[i].args[1] = "stash"}
             IN  /\ stashes = pushes
                 /\ Cardinality(pushes) = IF dirty THEN 1 ELSE 0
                 /\ ret'.value # "GitContextError"
                    => /\ ret'.value = IF dirty THEN "True" ELSE "False"
                       /\ stash' = IF dirty THEN stash + 1 ELSE stash
                       /\ stash_scope' # <<>>
       /\ ret'.op = "stashed_changes.exit"
          => LET pushed == stash_scope[1]
             IN  /\ spawned' = IF pushed
                               THEN << [args |-> <<"stash", "pop">>, ref |-> <<>>] >>
                               ELSE <<>>
                 /\ (pushed /\ ~results'[1])
                    => (warnings' = <<"RuntimeWarning">> /\ stash' = stash)
                 /\ (pushed /\ results'[1]) => (warnings' = <<>> /\ stash' = stash - 1)
                 /\ ret'.value \in {"None", "BodyError"}]_vars

\* a scope that pushed a stash is left and the pop fails
C14_Witness ==
    /\ ret.op = "stashed_changes.exit"
    /\ results = <<FALSE>>
    /\ warnings = <<"RuntimeWarning">>
    /\ stash = 1

\* C15: cloned_repo removes the whole temporary parent directory on every
\* way out of the scope: normal exit, an exception raised in the body, and
\* a failed clone, which surfaces as GitContextError before the body runs;
\* an error during removal never propagates to the caller.
C15_TempDirRemoved ==
    [][/\ (ret'.op = "cloned_repo" /\ ~results'[1])
          => /\ ret'.value = "GitContextError"
             /\ clone_scope' = <<>>
             /\ Len(rmtree') = 1
             /\ rmtree'[1] => temp_dirs' = temp_dirs
       /\ ret'.op = "cloned_repo.exit"
          => /\ Len(rmtree') = 1
             /\ rmtree'[1] => clone_scope[1] \notin temp_dirs'
             /\ ret'.value \in {"None", "BodyError"}
             /\ clone_scope' = <<>>]_vars

\* the body raised and the removal hit an error that was swallowed
C15_Witness ==
    /\ ret.op = "cloned_repo.exit"
    /\ ret.value = "BodyError"
    /\ rmtree = <<FALSE>>
    /\ temp_dirs # {}

\* C16: every failure at the entry of a scoped resource (clone failure,
\* checkout failure, refusal because of uncommitted changes, stash failure,
\* or a failing status/head query made during entry, e.g. when the path is
\* not a git repository) is raised as GitContextError at scope entry, before
\* the body runs.
C16_EntryFailures ==
    (/\ ret.op \in {"cloned_repo", "checkout_commit", "stashed_changes"}
     /\ FALSE \in Range(results) \/ ret.value \notin {"entered", "True", "False", "repo_path"})
    => ret.value = "GitContextError"

(***************************************************************************)
(* SpecScan: one batched scan of a directory, driven to its end.           *)
(***************************************************************************)
NextScan ==
    \/ \E directory \in ScannedDirs, batch_size \in 0..MaxBatchSize,
          ignore_dirs \in IgnoreDirs, on_batch \in BOOLEAN :
            gen = <<>> /\ GetAllFilesBatched(directory, batch_size, ignore_dirs, on_batch)
    \/ GeneratorNext

SpecScan == Init /\ [][NextScan]_vars

\* the batches yielded so far, and the first n of them put end to end
BatchesYielded ==
    LET yields == SelectSeq(events, LAMBDA e : e.kind = "yield")
    IN  [i \in 1..Len(yields) |-> yields[i].batch]

FilesIn(batches, n) == Flatten(SubSeq(batches, 1, n))

\* C17: for batch_size >= 1, get_all_files_batched yields only non-empty
\* batches of at most batch_size paths, every batch except possibly the last
\* has exactly batch_size paths, the concatenation of the batches equals
\* the sequence get_all_files yields for the same arguments, and the
\* optional callback is invoked exactly once per batch, before that batch
\* is yielded, with the batch and the cumulative number of files produced
\* so far.
C17_Batches ==
    (gen # <<>> /\ gen.batch_size >= 1)
    => LET batches == BatchesYielded
           n == Len(batches)
           unbatched == get_all_files(gen.directory, gen.ignore_dirs)
       IN  /\ \A i \in 1..n :
                 /\ Len(batches[i]) >= 1
                 /\ Len(batches[i]) <= gen.batch_size
                 /\ i < n => Len(batches[i]) = gen.batch_size
           /\ FilesIn(batches, n) = SubSeq(unbatched, 1, Len(FilesIn(batches, n)))
           /\ (n > 0 /\ Len(batches[n]) < gen.batch_size)
              => FilesIn(batches, n) = unbatched
           /\ gen.done => FilesIn(batches, n) = unbatched
           /\ IF gen.on_batch
              THEN /\ Len(events) = 2 * n
                   /\ \A i \in 1..n :
                         /\ events[2 * i - 1].kind = "on_batch"
                         /\ events[2 * i - 1].batch = batches[i]
                         /\ events[2 * i - 1].total = Len(FilesIn(batches, i))
                         /\ events[2 * i].kind = "yield"
              ELSE Len(events) = n

\* a scan with a callback that ended after a full batch and a shorter one
C17_Witness ==
    /\ gen # <<>>
    /\ gen.done
    /\ gen.on_batch
    /\ gen.batch_size = 2
    /\ Len(events) = 4
    /\ Len(events[4].batch) = 1
    /\ events[3].total = 3

(***************************************************************************)
(* SpecLazy: an AnalyzedChange is built and its attributes are read.       *)
(***************************************************************************)
\* the properties and fields of an AnalyzedChange other than diff, and the
\* generated __repr__ and __eq__, which leave _diff_loader out
Accessors ==
    {"path", "status", "file", "is_code", "is_doc", "language", "__repr__", "__eq__"}

NextLazy ==
    \/ \E include_diffs \in BOOLEAN : AnalyzeCommit(include_diffs)
    \/ \E loader_ok \in BOOLEAN : accesses < MaxAccesses /\ AccessDiff(loader_ok)
    \/ \E accessor \in Accessors : AccessOther(accessor)

SpecLazy == Init /\ [][NextLazy]_vars

\* a step that reads change.diff, and a step that builds a change
DiffAccessed == analyzed_change # <<>> /\ accesses' = accesses + 1
Constructed == analyzed_change' # <<>> /\ accesses' = 0 /\ ret'.op = "_analyze_commit"

\* what holds of every step whatever the loader does: construction and the
\* accessors other than diff never invoke the loader, and without a loader
\* diff is None and nothing is loaded
NoEagerLoad ==
    /\ Constructed => loads' = 0
    /\ (analyzed_change # <<>> /\ ~Constructed /\ ~DiffAccessed) => loads' = loads
    /\ (DiffAccessed /\ ~analyzed_change._diff_loader)
       => (loads' = loads /\ loads = 0 /\ ret'.value = "None")

\* C18 as stated: with a loader, the first access to diff invokes the loader
\* exactly once and every later access returns the memoized value without
\* invoking it again; construction and other accessors never invoke it;
\* without a loader diff is None and nothing is loaded.
C18_Original ==
    [][/\ NoEagerLoad
       /\ (DiffAccessed /\ analyzed_change._diff_loader)
          => IF accesses = 0
             THEN loads' = 1
             ELSE /\ loads' = loads
                  /\ analyzed_change.cache # <<>>
                  /\ ret'.value = analyzed_change.cache[1]]_vars

\* C18: with a loader, construction and the accessors other than diff never
\* invoke the loader; an access to diff invokes it exactly once while no
\* earlier invocation has returned (an invocation that raises memoizes
\* nothing, so the next access invokes the loader again), and once an
\* invocation has returned every later access returns the memoized value
\* without invoking it; without a loader diff is None and nothing is loaded.
C18_LazyDiff ==
    [][/\ NoEagerLoad
       /\ (DiffAccessed /\ analyzed_change._diff_loader)
          => IF analyzed_change.cache = <<>>
             THEN /\ loads' = loads + 1
                  /\ loads = accesses
                  /\ \/ /\ ret'.value = "diff content"
                        /\ analyzed_change'.cache = <<"diff content">>
                     \/ /\ ret'.value = "GitCommandError"
                        /\ analyzed_change'.cache = <<>>
             ELSE /\ loads' = loads
                  /\ ret'.value = analyzed_change.cache[1]
                  /\ analyzed_change' = analyzed_change]_vars

\* three accesses to diff: the loader raised, then returned, then the
\* memoized value was returned without a third invocation
C18_Witness ==
    /\ analyzed_change # <<>>
    /\ analyzed_change._diff_loader
    /\ accesses = 3
    /\ loads = 2
    /\ analyzed_change.cache = <<"diff content">>
    /\ ret.op = "diff"
    /\ ret.value = "diff content"

\* a step that is the second analyze_directory call of an analyzer, made
\* right after the first on a directory that yields the same files
AnalyzedAgain ==
    /\ ret.op = "analyze_directory"
    /\ analyses = 1
    /\ analyses' = 2
    /\ code_files' = code_files
    /\ doc_files' = doc_files

\* C19: running the analysis twice on the same unchanged inputs produces the
\* same result: after a second analyze_directory call on an analyzer its
\* code_files, doc_files, links and coverage stats equal those after the
\* first call, so the saved JSON (created_at aside) is identical.
C19_AnalysisRepeatable ==
    [][AnalyzedAgain
       => /\ links' = links
          /\ get_coverage_stats(code_files', doc_files', links')
                = get_coverage_stats(code_files, doc_files, links)
          /\ SaveData(code_files', doc_files', links')
                = SaveData(code_files, doc_files, links)]_vars

\* a step that loads the file the analyzer under observation was saved to
LoadedFromOwnSave ==
    /\ ret'.op = "load"
    /\ disk = SaveData(code_files, doc_files, links)

\* C20: for every analyzer state, load(save(analyzer)) yields an analyzer
\* whose coverage stats (total_entities, documented_entities,
\* total_references, linked_references), number of links, number of code
\* files and number of doc files equal those of the original.
C20_RoundTrip ==
    [][LoadedFromOwnSave
       => LET original == get_coverage_stats(code_files, doc_files, links)
              loaded == get_coverage_stats(code_files', doc_files', links')
          IN  /\ loaded.total_entities = original.total_entities
              /\ loaded.documented_entities = original.documented_entities
              /\ loaded.total_references = original.total_references
              /\ loaded.linked_references = original.linked_references
              /\ Len(links') = Len(links)
              /\ Len(code_files') = Len(code_files)
              /\ Len(doc_files') = Len(doc_files)]_vars

\* an analyzer loaded from the save of an analysis with documented entities
C20_Witness ==
    /\ ret.op = "load"
    /\ analyses >= 1
    /\ disk = SaveData(code_files, doc_files, links)
    /\ Len(links) >= 1
    /\ get_coverage_stats(code_files, doc_files, links).documented_entities >= 1
    /\ get_coverage_stats(code_files, doc_files, links).linked_references >= 1

(***************************************************************************)
(* extractor.py: process_directory over the files categorize_files lists.  *)
(* A file on disk has a kind given by its suffix, may or may not be        *)
(* readable, and holds Python sources (one for a .py file, one per code    *)
(* cell for a notebook) or documentation references.  A Python source is   *)
(* what ast.parse makes of it: parses says whether it is accepted, defs    *)
(* and imports are what the tree holds, lines its number of lines.         *)
(***************************************************************************)
PySource(parses, defs, imports, lines) ==
    [parses |-> parses, defs |-> defs, imports |-> imports, lines |-> lines]

ScannedFile(path, kind, readable, sources, references) ==
    [path |-> path, kind |-> kind, readable |-> readable, sources |-> sources,
     references |-> references]

\* models.py CodeFile with the imports field the extractors fill
ExtractedCodeFile(path, entities, imports) ==
    [path |-> path, entities |-> entities, imports |-> imports]

\* readers.py read_file_safe: None for a file that cannot be opened
read_file_safe(file) == IF file.readable THEN <<file>> ELSE None

\* PythonASTExtractor.extract: nothing at all on a SyntaxError
extract_from_source(source, filepath) ==
    IF ~source.parses
    THEN [entities |-> <<>>, imports |-> <<>>]
    ELSE [entities |-> EntitiesOf(filepath, source.defs), imports |-> source.imports]

\* the imports of a cell that are not collected yet
NewImports(collected, imports) ==
    SelectSeq(imports, LAMBDA imp : imp \notin Range(collected))

\* NotebookExtractor.extract over the cells from cell_idx on
RECURSIVE NotebookCells(_, _, _, _, _)
NotebookCells(filepath, cells, line_offset, entities, imports) ==
    IF Len(cells) = 0 THEN [entities |-> entities, imports |-> imports]
    ELSE LET found == extract_from_source(cells[1], filepath)
             adjusted == [i \in 1..Len(found.entities) |->
                             CodeEntity(found.entities[i].name,
                                        found.entities[i].entity_type, filepath,
                                        found.entities[i].location.line_start + line_offset,
                                        found.entities[i].parent)]
         IN  NotebookCells(filepath, Tail(cells), line_offset + cells[1].lines,
                           entities \o adjusted,
                           imports \o NewImports(imports, found.imports))

\* notebook_extractor.extract_from_notebook: a notebook that cannot be read
\* gives no entities and no imports
extract_from_notebook(file) ==
    IF ~file.readable THEN [entities |-> <<>>, imports |-> <<>>]
    ELSE NotebookCells(file.path, file.sources, 0, <<>>, <<>>)

\* extractor.py _extract_notebook
_extract_notebook(file) ==
    LET found == extract_from_notebook(file)
    IN  ExtractedCodeFile(file.path, found.entities, found.imports)

\* extract_code_file: None or <<the CodeFile>>
extract_code_file(file) ==
    IF file.kind = "ipynb" THEN << _extract_notebook(file) >>
    ELSE IF read_file_safe(file) = None THEN None
    ELSE IF file.kind = "py"
    THEN LET found == extract_from_source(file.sources[1], file.path)
         IN  << ExtractedCodeFile(file.path, found.entities, found.imports) >>
    ELSE << ExtractedCodeFile(file.path, <<>>, <<>>) >>

\* extract_doc_file: None or <<the DocFile>>
extract_doc_file(file) ==
    IF read_file_safe(file) = None THEN None
    ELSE << DocFile(file.path, file.references) >>

\* scanner.py categorize_files
categorize_files(files) ==
    [code |-> SelectSeq(files, LAMBDA f : f.kind \in {"py", "ipynb", "sh"}),
     docs |-> SelectSeq(files, LAMBDA f : f.kind = "md")]

process_directory(files) ==
    LET categorized == categorize_files(files)
    IN  [code_files |-> Flatten([i \in 1..Len(categorized.code) |->
                                    extract_code_file(categorized.code[i])]),
         doc_files |-> Flatten([i \in 1..Len(categorized.docs) |->
                                   extract_doc_file(categorized.docs[i])])]

\* the files of the directories processed
path_n_ipynb == <<"n", ".", "i", "p", "y", "n", "b">>
path_t_sh == <<"t", ".", "s", "h">>
path_o_bin == <<"o", ".", "b", "i", "n">>
src_good == PySource(TRUE, <<DefRun, DefGo>>, <<"os">>, 2)
src_broken == PySource(FALSE, <<DefRun>>, <<"os">>, 2)
src_other == PySource(TRUE, <<DefClassRun>>, <<"os", "re">>, 1)

PyFiles(path) ==
    {ScannedFile(path, "py", readable, <<source>>, <<>>) :
        readable \in BOOLEAN, source \in {src_good, src_broken}}

Notebooks ==
    {ScannedFile(path_n_ipynb, "ipynb", readable, cells, <<>>) :
        readable \in BOOLEAN, cells \in {<<src_good, src_other>>, <<src_broken, src_other>>}}

MdFiles ==
    {ScannedFile(path_d_md, "md", readable, <<>>,
                 << DocReference(str_run, path_d_md, 1, "inline_code") >>) :
        readable \in BOOLEAN}

OtherFiles ==
    {ScannedFile(path_t_sh, "sh", readable, <<>>, <<>>) : readable \in BOOLEAN}
    \cup {ScannedFile(path_o_bin, "bin", FALSE, <<>>, <<>>)}

\* None or <<one file of the set>>
Maybe(files) == {None} \cup {<<f>> : f \in files}

ProcessedDirs ==
    {Flatten(<<a, b, c, d, e>>) :
        a \in Maybe(PyFiles(path_K_py)), b \in Maybe(MdFiles), c \in Maybe(Notebooks),
        d \in Maybe(PyFiles(path_src_u_py)), e \in Maybe(OtherFiles)}

\* a call of a function that keeps no state: only the value returned changes
Call(op, arg, value) ==
    /\ ret' = Return(op, arg, value)
    /\ UNCHANGED <<analyzerVars, matcher, disk, calculator,
                   repoVars, loadVars, vcsVars, scanVars,
                   changeVars>>

ProcessDirectory(files) == Call("process_directory", files, process_directory(files))

\* nothing has been called yet
NoCallYet == ret.op = "__init__"

(***************************************************************************)
(* SpecExtract: one directory is processed.                                *)
(***************************************************************************)
NextExtract == NoCallYet /\ \E files \in ProcessedDirs : ProcessDirectory(files)

SpecExtract == Init /\ [][NextExtract]_vars

\* a bad file: one that cannot be read, or Python with a syntax error
BadFile(file) == ~file.readable \/ (file.kind = "py" /\ ~file.sources[1].parses)

Without(seq, path) == SelectSeq(seq, LAMBDA x : x.path # path)

RemoveAt(seq, i) == SubSeq(seq, 1, i - 1) \o SubSeq(seq, i + 1, Len(seq))

\* C21: process_directory never aborts because of one bad file: an
\* unreadable file is omitted from the result, a Python file with a syntax
\* error yields a CodeFile with no entities and no imports, and the results
\* for every other file are the same as if the bad file were absent.
C21_BadFileIsolated ==
    ret.op = "process_directory"
    => \A i \in 1..Len(ret.arg) :
         LET file == ret.arg[i]
             absent == process_directory(RemoveAt(ret.arg, i))
         IN  /\ ~file.readable
                => /\ \A j \in 1..Len(ret.value.code_files) :
                         ret.value.code_files[j].path # file.path
                   /\ \A j \in 1..Len(ret.value.doc_files) :
                         ret.value.doc_files[j].path # file.path
             /\ (file.readable /\ file.kind = "py" /\ ~file.sources[1].parses)
                => ExtractedCodeFile(file.path, <<>>, <<>>) \in Range(ret.value.code_files)
             /\ BadFile(file)
                => /\ Without(ret.value.code_files, file.path) = absent.code_files
                   /\ Without(ret.value.doc_files, file.path) = absent.doc_files

(***************************************************************************)
(* SpecModulePath: file_path_to_module_path is applied to one path.        *)
(***************************************************************************)
str_src == <<"s", "r", "c">>
str_lib == <<"l", "i", "b">>
str_pk == <<"p", "k">>
MaxSegments == 3

\* relative paths of at most MaxSegments directories and a file name
ModulePaths ==
    {Join(dirs \o <<name>>, "/") :
        dirs \in SeqsUpTo({str_src, str_lib, str_pk, <<"a", "p", "p">>}, MaxSegments),
        name \in {<<"x", ".", "p", "y">>, <<"s", "r", "c", ".", "p", "y">>}}

FilePathToModulePath(file_path) ==
    Call("file_path_to_module_path", file_path, file_path_to_module_path(file_path))

NextModulePath ==
    NoCallYet /\ \E file_path \in ModulePaths : FilePathToModulePath(file_path)

SpecModulePath == Init /\ [][NextModulePath]_vars

\* C23: file_path_to_module_path returns the dot-join of the path's segments
\* with the file extension dropped, after removing the first segment iff it
\* is in the prefix list; a segment that is not the leading one is never
\* removed, even when it equals a prefix.  Stated for paths of at least one
\* directory and a file.
C23_LeadingPrefixOnly ==
    (ret.op = "file_path_to_module_path" /\ Len(PathParts(ret.arg)) >= 2)
    => LET segments == PartsWithoutSuffix(ret.arg)
       IN  ret.value = IF segments[1] \in Range(SOURCE_DIR_PREFIXES)
                       THEN Join(Tail(segments), ".")
                       ELSE Join(segments, ".")

(***************************************************************************)
(* scorer.py: PriorityScorer.  Scores are in thousandths until they are    *)
(* rounded to two decimals, in hundredths afterwards.                      *)
(***************************************************************************)
PRIORITY_BASE_SCORE == 500
PRIORITY_CLASS_BONUS == 200
PRIORITY_FUNCTION_BONUS == 100
PRIORITY_METHOD_PENALTY == 100
PRIORITY_PUBLIC_BONUS == 200
PRIORITY_PRIVATE_PENALTY == 300
PRIORITY_DUNDER_PENALTY == 300
LOCATION_PROMINENT_THRESHOLD == 20
LOCATION_VISIBLE_THRESHOLD == 50
PRIORITY_PROMINENT_BONUS == 200
PRIORITY_VISIBLE_BONUS == 100
PRIORITY_HEADER_BONUS == 200
PRIORITY_CODE_BLOCK_BONUS == 100
PRIORITY_SIMILAR_NAME_BONUS == 200

StartsWith(s, prefix) == Len(s) >= Len(prefix) /\ SubSeq(s, 1, Len(prefix)) = prefix

\* a score left as the adjustments made it
Clamp_None(score) == score

\* max(0.0, min(1.0, score))
Clamp(score) ==
    LET capped == IF score > 1000 THEN 1000 ELSE score
    IN  IF capped < 0 THEN 0 ELSE capped

\* round(score, 2) of a score that is not negative: thousandths to hundredths,
\* a half going to the even neighbour
Round2(score) ==
    LET low == score \div 10
        rest == score % 10
    IN  IF rest > 5 \/ (rest = 5 /\ low % 2 = 1) THEN low + 1 ELSE low

\* the adjustments of score_undocumented_entity, each with its reason
EntityAdjustments(entity) ==
    (IF entity.entity_type = "class" THEN << <<PRIORITY_CLASS_BONUS, "class">> >>
     ELSE IF entity.entity_type = "function"
     THEN << <<PRIORITY_FUNCTION_BONUS, "function">> >>
     ELSE <<>>)
    \o (IF StartsWith(entity.name, <<"_">>)
        THEN << <<0 - PRIORITY_PRIVATE_PENALTY, "private">> >>
        ELSE << <<PRIORITY_PUBLIC_BONUS, "public API">> >>)
    \o (IF Len(entity.parent) > 0
        THEN << <<0 - PRIORITY_METHOD_PENALTY, "method of">> >> ELSE <<>>)
    \o (IF StartsWith(entity.name, <<"_", "_">>) /\ EndsWith(entity.name, <<"_", "_">>)
        THEN << <<0 - PRIORITY_DUNDER_PENALTY, "dunder method">> >> ELSE <<>>)

\* the adjustments of score_broken_reference; close_matches is what
\* find_close_matches returns for the reference's clean_text
ReferenceAdjustments(ref, close_matches) ==
    (IF ref.location.line_start <= LOCATION_PROMINENT_THRESHOLD
     THEN << <<PRIORITY_PROMINENT_BONUS, "prominent location">> >>
     ELSE IF ref.location.line_start <= LOCATION_VISIBLE_THRESHOLD
     THEN << <<PRIORITY_VISIBLE_BONUS, "visible location">> >>
     ELSE <<>>)
    \o (IF ref.reference_type = "header"
        THEN << <<PRIORITY_HEADER_BONUS, "in header">> >>
        ELSE IF ref.reference_type = "code_block"
        THEN << <<PRIORITY_CODE_BLOCK_BONUS, "in code block">> >>
        ELSE <<>>)
    \o (IF Len(close_matches) > 0
        THEN << <<PRIORITY_SIMILAR_NAME_BONUS, "similar to">> >> ELSE <<>>)

RECURSIVE SumOf(_)
SumOf(adjustments) ==
    IF Len(adjustments) = 0 THEN 0 ELSE adjustments[1][1] + SumOf(Tail(adjustments))

\* the (score, reasons) pair both scoring functions build from a base of 0.5
Scored(adjustments) ==
    [score |-> Round2(Clamp(PRIORITY_BASE_SCORE + SumOf(adjustments))),
     reasons |-> [i \in 1..Len(adjustments) |-> adjustments[i][2]]]

score_undocumented_entity(entity) == Scored(EntityAdjustments(entity))

score_broken_reference(ref, close_matches) ==
    Scored(ReferenceAdjustments(ref, close_matches))

\* the issues scored
str_init == <<"_", "_", "i", "n", "i", "t", "_", "_">>
ScoredNames ==
    {str_run, str_Run, <<"_", "r", "u", "n">>, <<"_", "_", "r", "u", "n">>, str_init,
     <<"_", "_">>, <<"r", "u", "n", "_", "_">>}

ScoredEntities ==
    {CodeEntity(name, entity_type, path_K_py, 1, parent) :
        name \in ScoredNames, entity_type \in {"class", "function", "method", "constant"},
        parent \in {<<>>, str_K}}

ScoredLines == {1, 20, 21, 50, 51, 52}

ScoredReferences ==
    {DocReference(str_run, path_d_md, line, reference_type) :
        line \in ScoredLines, reference_type \in ReferenceTypes}

CloseMatches == {<<>>, <<str_run>>}

ScoreUndocumentedEntity(entity) ==
    Call("score_undocumented_entity", <<entity>>, score_undocumented_entity(entity))

ScoreBrokenReference(ref, close_matches) ==
    Call("score_broken_reference", <<ref, close_matches>>,
         score_broken_reference(ref, close_matches))

(***************************************************************************)
(* SpecScorer: one issue is scored.                                        *)
(***************************************************************************)
NextScorer ==
    \/ NoCallYet /\ \E entity \in ScoredEntities : ScoreUndocumentedEntity(entity)
    \/ NoCallYet /\ \E ref \in ScoredReferences, close_matches \in CloseMatches :
                       ScoreBrokenReference(ref, close_matches)

SpecScorer == Init /\ [][NextScorer]_vars

\* the score the adjustment table gives: 0.5 plus the deltas, clamped to
\* [0,1], in hundredths
TableScore(deltas) ==
    LET total == 50 + SumOf([i \in 1..Len(deltas) |-> <<deltas[i]>>])
    IN  IF total > 100 THEN 100 ELSE IF total < 0 THEN 0 ELSE total

\* C22: score_undocumented_entity and score_broken_reference each return
\* max(0, min(1, 0.5 + the sum of the applicable table adjustments)) rounded
\* to 2 decimals, so every score lies in [0,1]; a public class without a
\* parent scores >= 0.7, a dunder method with a parent scores <= 0.3, every
\* underscore-prefixed entity scores <= 0.4, and a broken reference at line
\* <= 20 scores strictly higher than an otherwise identical reference at a
\* line > 50.
C22_Scores ==
    /\ ret.op = "score_undocumented_entity"
       => LET entity == ret.arg[1]
              private == entity.name[1] = "_"
              dunder == /\ Len(entity.name) >= 2
                        /\ SubSeq(entity.name, 1, 2) = <<"_", "_">>
                        /\ SubSeq(entity.name, Len(entity.name) - 1, Len(entity.name))
                             = <<"_", "_">>
              score == ret.value.score
          IN  /\ score = TableScore(
                    << IF entity.entity_type = "class" THEN 20
                       ELSE IF entity.entity_type = "function" THEN 10 ELSE 0,
                       IF private THEN 0 - 30 ELSE 20,
                       IF entity.parent # <<>> THEN 0 - 10 ELSE 0,
                       IF dunder THEN 0 - 30 ELSE 0 >>)
              /\ score >= 0 /\ score <= 100
              /\ (entity.entity_type = "class" /\ ~private /\ entity.parent = <<>>)
                 => score >= 70
              /\ (dunder /\ entity.parent # <<>>) => score <= 30
              /\ private => score <= 40
    /\ ret.op = "score_broken_reference"
       => LET ref == ret.arg[1]
              line == ref.location.line_start
              score == ret.value.score
          IN  /\ score = TableScore(
                    << IF line <= 20 THEN 20 ELSE IF line <= 50 THEN 10 ELSE 0,
                       IF ref.reference_type = "header" THEN 20
                       ELSE IF ref.reference_type = "code_block" THEN 10 ELSE 0,
                       IF ret.arg[2] # <<>> THEN 20 ELSE 0 >>)
              /\ score >= 0 /\ score <= 100
              /\ line <= 20
                 => \A later \in {l \in ScoredLines : l > 50} :
                      score > score_broken_reference(
                                 DocReference(ref.text, ref.location.file, later,
                                              ref.reference_type), ret.arg[2]).score

\* a prominent header reference with a similar name, whose 1.1 is clamped to
\* 1.0
C22_Witness ==
    /\ ret.op = "score_broken_reference"
    /\ ret.arg[1].location.line_start <= 20
    /\ ret.arg[1].reference_type = "header"
    /\ ret.arg[2] # <<>>
    /\ ret.value.score = 100

(***************************************************************************)
(* SpecCleanText: the clean_text of one DocReference is read.              *)
(***************************************************************************)
MaxTextLen == 3

FormatChars == {chr_backtick, "'", "\"", "[", "]"}

ReferenceTexts == SeqsUpTo(FormatChars \cup {" ", "r"}, MaxTextLen)

CleanText(ref) == Call("clean_text", <<ref>>, clean_text(ref))

NextCleanText ==
    NoCallYet /\ \E text \in ReferenceTexts :
                    CleanText(DocReference(text, path_d_md, 1, "inline_code"))

SpecCleanText == Init /\ [][NextCleanText]_vars

\* text without its outer occurrences of the formatting characters: what
\* lies between the first and the last character that is not one of them
OuterRemoved(text) ==
    LET kept == {i \in 1..Len(text) : text[i] \notin FormatChars}
    IN  IF kept = {} THEN <<>>
        ELSE SubSeq(text, CHOOSE i \in kept : \A j \in kept : i <= j,
                    CHOOSE i \in kept : \A j \in kept : i >= j)

CodePoints ==
    <<".", "/", "K", "a", "b", "c", "d", "e", "f", "g", "h", "i", "j", "k", "l", "m", "n",
      "o", "p", "q", "r", "s", "t", "u", "v", "w", "x", "y", "z">>

ord(c) == CHOOSE i \in 1..Len(CodePoints) : CodePoints[i] = c

\* a < b for two str
RECURSIVE StrLess(_, _)
StrLess(a, b) ==
    IF Len(b) = 0 THEN FALSE
    ELSE IF Len(a) = 0 THEN TRUE
    ELSE IF a[1] # b[1] THEN ord(a[1]) < ord(b[1])
    ELSE StrLess(Tail(a), Tail(b))

\* sorted(strings)
RECURSIVE sorted(_)
sorted(strings) ==
    IF strings = {} THEN <<>>
    ELSE LET least == CHOOSE s \in strings : \A t \in strings : s = t \/ StrLess(s, t)
         IN  <<least>> \o sorted(strings \ {least})

\* the component of graph.to_undirected() that holds the nodes of seen
RECURSIVE Component(_, _)
Component(g, seen) ==
    LET next == seen \cup {e[2] : e \in {d \in DOMAIN g.edges : d[1] \in seen}}
                     \cup {e[1] : e \in {d \in DOMAIN g.edges : d[2] \in seen}}
    IN  IF next = seen THEN seen ELSE Component(g, next)

\* nx.connected_components(undirected), as far as the components hold a file:
\* the components come in the order in which their first node was added, and
\* order lists the file nodes in the order in which they were added
RECURSIVE connected_components(_, _, _)
connected_components(g, order, seen) ==
    IF Len(order) = 0 THEN <<>>
    ELSE IF order[1] \in seen THEN connected_components(g, Tail(order), seen)
    ELSE LET component == Component(g, {order[1]})
         IN  <<component>> \o connected_components(g, Tail(order), seen \cup component)

\* node.split(delim, 1)[1]
RECURSIVE SplitOnce(_, _)
SplitOnce(node, delim) ==
    IF Len(node) = 0 THEN <<>>
    ELSE IF node[1] = delim THEN Tail(node)
    ELSE SplitOnce(Tail(node), delim)

\* node.replace(old, "")
RECURSIVE ReplaceWithEmpty(_, _)
ReplaceWithEmpty(node, old) ==
    IF Len(node) = 0 THEN <<>>
    ELSE IF StartsWith(node, old)
         THEN ReplaceWithEmpty(SubSeq(node, Len(old) + 1, Len(node)), old)
    ELSE <<node[1]>> \o ReplaceWithEmpty(Tail(node), old)

\* clusters.sort(key=len, reverse=True): the sort is stable
RECURSIVE SortBySize(_, _)
SortBySize(clusters, size) ==
    IF size = 0 THEN <<>>
    ELSE SelectSeq(clusters, LAMBDA c : Len(c) = size) \o SortBySize(clusters, size - 1)

\* the loop of the two queries: files[i] are the paths of the file nodes of
\* the i-th component; the sorted files of each component that has any
FileClusters(files) ==
    LET kept == SelectSeq(files, LAMBDA f : f # {})
    IN  [i \in 1..Len(kept) |-> sorted(kept[i])]

\* DocumentationGraph.get_connected_file_clusters
get_connected_file_clusters(g, order) ==
    LET prefix == <<"f", "i", "l", "e", _ID_DELIM>>
        components == connected_components(g, order, {})
        files == [i \in 1..Len(components) |->
                     {SplitOnce(node, _ID_DELIM) :
                         node \in {n \in components[i] : StartsWith(n, prefix)}}]
    IN  SortBySize(FileClusters(files), Cardinality(DOMAIN g.nodes))

\* DocumentationAnalyzer.find_documentation_clusters
find_documentation_clusters(g, order) ==
    LET prefix == <<"f", "i", "l", "e", ":">>
        components == connected_components(g, order, {})
        files == [i \in 1..Len(components) |->
                     {ReplaceWithEmpty(node, prefix) :
                         node \in {n \in components[i] : StartsWith(n, prefix)}}]
    IN  SortBySize(FileClusters(files), Cardinality(DOMAIN g.nodes))

\* the file nodes in the order in which analyze_directory added them
FileNodeOrder ==
    [i \in 1..Len(code_files) |-> _file_node_id(code_files[i].path)]
    \o [i \in 1..Len(doc_files) |-> _file_node_id(doc_files[i].path)]

GetConnectedFileClusters ==
    Query("get_connected_file_clusters", get_connected_file_clusters(graph, FileNodeOrder))

FindDocumentationClusters ==
    Query("find_documentation_clusters", find_documentation_clusters(graph, FileNodeOrder))

\* the directories whose files are clustered
ClusterDirs ==
    {Directory(d1, d2, << DocFile(path_d_md, refs) >>) :
        d1 \in SeqsUpTo({DefRun, DefGo}, MaxEntitiesPerFile),
        d2 \in SeqsUpTo({DefRun}, MaxEntitiesPerFile),
        refs \in RefLists({str_run, str_go})}

NextClusters ==
    \/ \E dir \in ClusterDirs : analyses = 0 /\ AnalyzeDirectory(dir)
    \/ GetConnectedFileClusters
    \/ FindDocumentationClusters

SpecClusters == Init /\ [][NextClusters]_vars

\* the file nodes of the graph
FileNodes == {id \in DOMAIN graph.nodes : graph.nodes[id].kind \in {"code_file", "doc_file"}}

\* clusters are the connected components of the graph projected to its files
IsFileClustering(clusters) ==
    LET Members(i) == Range(clusters[i])
        path(id) == graph.nodes[id].label
    IN  /\ \A f \in FileNodes :
              Cardinality({i \in 1..Len(clusters) : path(f) \in Members(i)}) = 1
        /\ \A i \in 1..Len(clusters) : Members(i) \subseteq {path(f) : f \in FileNodes}
        /\ \A f1, f2 \in FileNodes :
              (\E i \in 1..Len(clusters) : {path(f1), path(f2)} \subseteq Members(i))
                  <=> f2 \in Component(graph, {f1})
        /\ \A i \in 1..Len(clusters) : \A j, k \in 1..Len(clusters[i]) :
              j < k => StrLess(clusters[i][j], clusters[i][k])
        /\ \A i, j \in 1..Len(clusters) : i < j => Len(clusters[i]) >= Len(clusters[j])

\* C25: both file-cluster queries return the connected components of the
\* undirected graph projected to the file nodes: every file is in exactly one
\* cluster, two files share a cluster iff they are connected, the members are
\* sorted and the clusters come in non-increasing size
C25_FileClusters ==
    ret.op \in {"get_connected_file_clusters", "find_documentation_clusters"}
        => IsFileClustering(ret.value)

(***************************************************************************)
(* coverage.py: a CoverageCalculator that is kept between queries.  It     *)
(* holds the three lists it was given, not copies: analyze_directory binds *)
(* new lists to code_files and doc_files and refills links in place        *)
(* (analyzer.py 92, 111-123), so a calculator built on the analyzer's      *)
(* lists keeps the file lists it was built on and sees the current links.  *)
(* A cached_property is computed at its first read and kept; names_at and  *)
(* keys_at record the triple of lengths at which that happened.            *)
(***************************************************************************)
CoverageCalculator(files, docs) ==
    [code_files |-> files, doc_files |-> docs,
     documented_names |-> None, linked_ref_keys |-> None,
     names_at |-> None, keys_at |-> None]

\* (len(code_files), len(doc_files), len(links)) of the lists calc holds
LengthTriple(calc) == <<Len(calc.code_files), Len(calc.doc_files), Len(links)>>

\* functools.cached_property: the value of the first read is kept
CachedProperty(cached, value) == IF cached = None THEN <<value>> ELSE cached

\* calc after self._documented_names was read
ReadDocumentedNames(calc) ==
    [calc EXCEPT !.documented_names = CachedProperty(@, DocumentedNames(links)),
                 !.names_at = IF calc.documented_names = None
                              THEN <<LengthTriple(calc)>> ELSE @]

\* calc after self._linked_ref_keys was read
ReadLinkedRefKeys(calc) ==
    [calc EXCEPT !.linked_ref_keys = CachedProperty(@, LinkedRefKeys(links)),
                 !.keys_at = IF calc.linked_ref_keys = None
                             THEN <<LengthTriple(calc)>> ELSE @]

\* CoverageCalculator.get_stats on a calculator whose sets have been read
get_stats(calc) ==
    CoverageStats(Len(AllEntities(calc.code_files)), Cardinality(calc.documented_names[1]),
                  Len(AllReferences(calc.doc_files)), Cardinality(calc.linked_ref_keys[1]))

\* CoverageCalculator.get_undocumented_entities, likewise
calc_get_undocumented_entities(calc) ==
    SelectSeq(AllEntities(calc.code_files),
              LAMBDA e : qualified_name(e) \notin calc.documented_names[1])

\* CoverageCalculator.get_broken_references, likewise
calc_get_broken_references(calc) ==
    SelectSeq(AllReferences(calc.doc_files),
              LAMBDA r : RefKey(r) \notin calc.linked_ref_keys[1])

\* calc = CoverageCalculator(analyzer.code_files, analyzer.doc_files, analyzer.links)
ConstructCalculator ==
    /\ calculator = None
    /\ calculator' = CoverageCalculator(code_files, doc_files)
    /\ ret' = Return("CoverageCalculator", <<>>, <<>>)
    /\ UNCHANGED <<analyzerVars, matcher, disk, repoVars, loadVars, vcsVars, scanVars,
                   changeVars>>

\* a query of the calculator that is kept
CalculatorQuery(op, calc, value) ==
    /\ calculator' = calc
    /\ ret' = Return(op, <<>>, value)
    /\ UNCHANGED <<analyzerVars, matcher, disk, repoVars, loadVars, vcsVars, scanVars,
                   changeVars>>

GetStats ==
    /\ calculator # None
    /\ LET calc == ReadLinkedRefKeys(ReadDocumentedNames(calculator))
       IN  CalculatorQuery("calc.get_stats", calc, get_stats(calc))

GetUndocumentedEntities ==
    /\ calculator # None
    /\ LET calc == ReadDocumentedNames(calculator)
       IN  CalculatorQuery("calc.get_undocumented_entities", calc,
                           calc_get_undocumented_entities(calc))

GetBrokenReferences_Calc ==
    /\ calculator # None
    /\ LET calc == ReadLinkedRefKeys(calculator)
       IN  CalculatorQuery("calc.get_broken_references", calc,
                           calc_get_broken_references(calc))

NextCache ==
    \/ \E dir \in PersistDirs : analyses < MaxAnalyses /\ AnalyzeDirectory(dir)
    \/ ConstructCalculator
    \/ GetStats
    \/ GetUndocumentedEntities
    \/ GetBrokenReferences_Calc

SpecCache == Init /\ [][NextCache]_vars

\* what the query op returns when it reflects the current links
FreshAnswer(op, calc) ==
    CASE op = "calc.get_stats" ->
             CalculatorGetStats(calc.code_files, calc.doc_files, links)
      [] op = "calc.get_undocumented_entities" ->
             get_undocumented_entities(calc.code_files, links)
      [] op = "calc.get_broken_references" ->
             CalculatorGetBrokenReferences(calc.doc_files, links)

\* C26: no coverage query is answered from documented-name or linked-reference
\* sets that were computed for an earlier (number of code files, number of doc
\* files, number of links) triple, and the answer reflects the current links
C26_CacheFresh ==
    ret.op \in {"calc.get_stats", "calc.get_undocumented_entities",
                "calc.get_broken_references"}
        => /\ calculator.names_at \in {None, <<LengthTriple(calculator)>>}
           /\ calculator.keys_at \in {None, <<LengthTriple(calculator)>>}
           /\ ret.value = FreshAnswer(ret.op, calculator)

(***************************************************************************)
(* git/commands.py: get_recent_commits.  A log record is what git knows of *)
(* one commit; git prints the four fields of the format string, each       *)
(* followed by a null byte, and a newline after every record.              *)
(***************************************************************************)
MaxRecords == 2

\* the null byte, which no string literal can hold
_NULL == "NUL"

Whitespace == {" ", "\n", "\t", "\r"}

GitCommit(hash, author, date, message) ==
    [hash |-> hash, author |-> author, date |-> date, message |-> message]

\* the output of git log -n<count> --format=%H%x00%an%x00%aI%x00%s%x00
GitLogOutput(history, count) ==
    Flatten([i \in 1..(IF count < Len(history) THEN count ELSE Len(history)) |->
                history[i].hash \o <<_NULL>> \o history[i].author \o <<_NULL>>
                \o history[i].date \o <<_NULL>> \o history[i].message \o <<_NULL>>
                \o <<"\n">>])

\* for i in range(0, len(entries) - 3, 4): Commit(entries[i], ..., entries[i + 3])
GroupsOfFour(entries) ==
    [k \in 1..(Len(entries) \div 4) |->
        GitCommit(entries[4 * k - 3], entries[4 * k - 2], entries[4 * k - 1],
                  entries[4 * k])]

\* history: the commits of the repository, most recent first; git log fails
\* with "does not have any commits" when there is none
get_recent_commits(history, count) ==
    IF Len(history) = 0 THEN <<>>
    ELSE LET fields == Split(GitLogOutput(history, count), _NULL)
             stripped == [i \in 1..Len(fields) |-> Strip(fields[i], Whitespace)]
             entries == SelectSeq(stripped, LAMBDA e : Len(e) > 0)
         IN  GroupsOfFour(entries)

hash_1 == <<"a", "1">>
hash_2 == <<"b", "2">>
str_date == <<"2", "0", "2", "6">>

\* the histories get_recent_commits is tried on: the i-th commit has hash_i
Histories ==
    LET Records(hash) == {GitCommit(hash, author, str_date, message) :
                             author \in {<<"a">>, <<"a", "|", "b">>},
                             message \in {<<>>, <<"m">>, <<"m", "|", "n">>}}
    IN  {h \in SeqsUpTo(Records(hash_1) \cup Records(hash_2), MaxRecords) :
            \A i \in 1..Len(h) : h[i].hash = (IF i = 1 THEN hash_1 ELSE hash_2)}

GetRecentCommits(history, count) ==
    Call("get_recent_commits", <<history, count>>, get_recent_commits(history, count))

NextLog ==
    NoCallYet /\ \E history \in Histories, count \in 1..(MaxRecords + 1) :
                    GetRecentCommits(history, count)

SpecLog == Init /\ [][NextLog]_vars

\* C27: get_recent_commits returns one Commit per log record, in git's order,
\* each holding the four fields of its own record, whatever the fields contain
C27_OneCommitPerRecord ==
    ret.op = "get_recent_commits"
        => LET history == ret.arg[1]
               count == ret.arg[2]
               n == IF count < Len(history) THEN count ELSE Len(history)
           IN  ret.value = [i \in 1..n |-> history[i]]

(***************************************************************************)
(* scanner.py: get_all_files under a scan root.  dir_path.rglob('*')       *)
(* yields dir_path / relative path, so the parts of an item begin with the *)
(* parts of the root as it was given.                                      *)
(***************************************************************************)
str_build == <<"b", "u", "i", "l", "d">>
item_dist == Item(<< <<"d", "i", "s", "t">> >>, TRUE)

\* the scan roots: ".", "w" and "build/w"
ScanRoots == {<<>>, << <<"w">> >>, << str_build, <<"w">> >>}

\* what is below a scan root, by paths relative to the root
TreesBelowRoot ==
    {below \in SeqsUpTo({item_a_py, item_s, item_s_b_md, item_nm_x_js, item_egg_t, item_dist},
                       MaxItems) :
        \A i, j \in 1..Len(below) : i < j => below[i] # below[j]}

\* the items dir_path.rglob('*') lists
rglob(dir_path, below) ==
    [i \in 1..Len(below) |-> Item(dir_path \o below[i].parts, below[i].is_file)]

GetAllFiles(dir_path, below, ignore_dirs) ==
    Call("get_all_files", <<dir_path, below, ignore_dirs>>,
         get_all_files(rglob(dir_path, below), ignore_dirs))

NextIgnore ==
    NoCallYet /\ \E dir_path \in ScanRoots, below \in TreesBelowRoot, ignore_dirs \in IgnoreDirs :
                    GetAllFiles(dir_path, below, ignore_dirs)

SpecIgnore == Init /\ [][NextIgnore]_vars

\* some directory strictly between the scan root and the file is ignored
BelowIgnoredDir(item, ignore_dirs) ==
    \E i \in 1..(Len(item.parts) - 1) :
        item.parts[i] \in ignore_dirs \/ EndsWith(item.parts[i], str_egg_info)

\* C28: get_all_files skips a file iff some directory strictly between the
\* scan root and the file has a basename in the ignore-set or ending in
\* .egg-info; neither the root's own path nor the file's name cause a skip
C28_IgnoredDirsOnly ==
    ret.op = "get_all_files"
        => LET dir_path == ret.arg[1]
               below == ret.arg[2]
               ignore_dirs == IF ret.arg[3] = None THEN DEFAULT_IGNORE_DIRS
                              ELSE ret.arg[3][1]
               kept == SelectSeq(below, LAMBDA item :
                                     item.is_file /\ ~BelowIgnoredDir(item, ignore_dirs))
           IN  ret.value = [i \in 1..Len(kept) |-> dir_path \o kept[i].parts]

(***************************************************************************)
(* graph.py: the nodes of the entities and references of the files added.  *)
(***************************************************************************)
path_lib_u_py == <<"l", "i", "b", "/", "u", ".", "p", "y">>

\* DocumentationGraph.count_by_kind
count_by_kind(g, kind) == Cardinality({id \in DOMAIN g.nodes : g.nodes[id].kind = kind})

CountByKind(kind) == Query("count_by_kind", count_by_kind(graph, kind))

\* the directories whose files are added to the graph: src/u.py, lib/u.py, d.md
GraphDirs ==
    {[code_files |-> << CodeFile(path_src_u_py, EntitiesOf(path_src_u_py, d1)),
                        CodeFile(path_lib_u_py, EntitiesOf(path_lib_u_py, d2)) >>,
      doc_files |-> << DocFile(path_d_md, refs) >>] :
        d1 \in SeqsUpTo({DefRun, DefGo}, MaxEntitiesPerFile),
        d2 \in SeqsUpTo({DefRun}, MaxEntitiesPerFile),
        refs \in RefLists({str_run, str_quoted_run})}

NextGraph ==
    \/ \E dir \in GraphDirs : analyses = 0 /\ AnalyzeDirectory(dir)
    \/ \E kind \in {"entity", "reference"} : CountByKind(kind)
    \/ GetCoverageStats

SpecGraph == Init /\ [][NextGraph]_vars

\* the elements of a sequence have different images under Id
Injective(seq, Id(_)) ==
    \A i, j \in 1..Len(seq) : i # j => Id(seq[i]) # Id(seq[j])

\* C29: after add_code_file and add_doc_file were called for the files, the
\* graph holds one entity node per CodeEntity and one reference node per
\* DocReference: distinct entities and distinct references never share a
\* node id, and the node counts equal the totals of the coverage stats
C29_OneNodeEach ==
    analyses > 0
        => LET stats == get_coverage_stats(code_files, doc_files, links)
           IN  /\ Injective(AllEntities(code_files), EntityId)
               /\ Injective(AllReferences(doc_files), ReferenceId)
               /\ count_by_kind(graph, "entity") = stats.total_entities
               /\ count_by_kind(graph, "reference") = stats.total_references

(***************************************************************************)
(* git/tracker.py: detect_entity_changes on a commit of a repository with  *)
(* two Python files.  A tree maps each path to the file a commit holds     *)
(* there; git show reports a file that left one path and arrived unchanged *)
(* at another as one rename (R100 old new).                                *)
(***************************************************************************)
path_src_v_py == <<"s", "r", "c", "/", "v", ".", "p", "y">>

TrackedPaths == <<path_src_u_py, path_src_v_py>>

GitTree(u, v) == (path_src_u_py :> u) @@ (path_src_v_py :> v)

ChangedFile(path, status, old_path) ==
    [path |-> path, status |-> status, old_path |-> old_path]

\* git's rename detection between the parent and the commit
RenamedTo(parent, commit, old_path, new_path) ==
    /\ old_path # new_path
    /\ parent[old_path].exists /\ ~commit[old_path].exists
    /\ ~parent[new_path].exists /\ commit[new_path].exists
    /\ commit[new_path] = parent[old_path]

\* get_changed_files(repo_path, commit_hash): git show --name-status parsed
get_changed_files(parent, commit) ==
    LET paths == Range(TrackedPaths)
        ChangeAt(path) ==
            IF \E new \in paths : RenamedTo(parent, commit, path, new) THEN <<>>
            ELSE IF \E old \in paths : RenamedTo(parent, commit, old, path)
            THEN << ChangedFile(path, "renamed",
                                CHOOSE old \in paths : RenamedTo(parent, commit, old, path)) >>
            ELSE IF parent[path] = commit[path] THEN <<>>
            ELSE IF ~parent[path].exists THEN << ChangedFile(path, "added", None) >>
            ELSE IF ~commit[path].exists THEN << ChangedFile(path, "deleted", None) >>
            ELSE << ChangedFile(path, "modified", None) >>
    IN  Flatten([i \in 1..Len(TrackedPaths) |-> ChangeAt(TrackedPaths[i])])

\* get_file_at_commit(repo_path, commit_hash, file_path): None if the commit
\* has no file at the path
get_file_at_commit(commit, file_path) ==
    IF file_path \in DOMAIN commit THEN commit[file_path] ELSE NoFile

\* tracker.py 384-396: the old content is read at change.path in the parent
OldContent(parent, change) == get_file_at_commit(parent, change.path)

\* ChangeTracker.detect_entity_changes: every changed file is a Python file
detect_entity_changes(parent, commit, order) ==
    LET code_changes == get_changed_files(parent, commit)
    IN  Flatten([i \in 1..Len(code_changes) |->
                    _compare_python_entities(
                        OldContent(parent, code_changes[i]),
                        get_file_at_commit(commit, code_changes[i].path),
                        code_changes[i].path, order)])

\* the versions of a file that are committed
RenameContents ==
    {NoFile} \cup
    {FileWith(entities) :
        entities \in SeqsUpTo({SourceEntity(str_run, <<>>, "function", str_sig0, <<>>),
                               SourceEntity(str_run, str_K, "method", str_sig0, <<>>)},
                              MaxEntitiesPerFile)}

GitTrees == {GitTree(u, v) : u \in RenameContents, v \in RenameContents}

DetectEntityChanges(parent, commit, order) ==
    Call("detect_entity_changes", [parent |-> parent, commit |-> commit],
         detect_entity_changes(parent, commit, order))

NextRename ==
    NoCallYet /\ \E parent \in GitTrees, commit \in GitTrees, order \in KeyOrders :
                    DetectEntityChanges(parent, commit, order)

SpecRename == Init /\ [][NextRename]_vars

\* the commit only moves one file to another path
OnlyRenames(parent, commit) ==
    \E old, new \in Range(TrackedPaths) : RenamedTo(parent, commit, old, new)

\* C30: for a commit that only renames a Python file without changing its
\* content, detect_entity_changes emits no EntityChange for the file
C30_RenameEmitsNothing ==
    (ret.op = "detect_entity_changes" /\ OnlyRenames(ret.arg.parent, ret.arg.commit))
        => ret.value = <<>>

=============================================================================
